---------------------------- MODULE Spec2Model ----------------------------
(***************************************************************************)
(* The evidence trust lifecycle of chittyledger: PostgreSQLStorage          *)
(* (src/vite.config.ts, lines 90-542) driven by the HTTP routes of          *)
(* registerRoutes (src/unnamed/part_009, lines 542-823); MemStorage, the    *)
(* in-memory IStorage (src/server/scientific-trust-scoring.ts, lines        *)
(* 1028-1346); and the ContradictionDetectionEngine (src/unnamed/part_009,  *)
(* lines 43-528).                                                           *)
(*                                                                         *)
(* Conventions.                                                            *)
(*  - A Date is a whole number of hours since the start of the run; the     *)
(*    null Date is NoDate.  A request handler runs at one instant.          *)
(*  - A JavaScript number is held as an integer count of ten-thousandths    *)
(*    (Scale units); NaN is the value NaN.                                  *)
(*  - A decimal string ("0.95", "0.0001") is a sequence of one-character    *)
(*    strings; the null / empty string is the empty sequence.               *)
(*  - Opaque strings (ids, block numbers, hashes) are TLA+ strings; the     *)
(*    null one is NULL.                                                     *)
(***************************************************************************)
EXTENDS Integers, Sequences, FiniteSets, TLC

VARIABLES
    evidence,      \* masterEvidence table: id -> row (DOMAIN = existing ids)
    custody,       \* chainOfCustodyLog table, in insertion order
    now,           \* wall clock, in hours
    response,      \* the last HTTP response sent
    mintedScore,   \* history: id -> trustScore written by the first successful mintEvidence
    requests,      \* number of mutating requests served so far
    atomicFacts,   \* atomicFacts table, in insertion order
    contradictions, \* contradictions table, in insertion order
    storage,       \* the IStorage implementation behind the interface
    inflight,      \* storage calls suspended at an await: call -> its locals
    dispatched,    \* payloads handed to the MCP dispatcher, in order
    logs           \* Logger.logs, oldest first

vars == <<evidence, custody, now, response, mintedScore, requests,
          atomicFacts, contradictions, storage, inflight, dispatched, logs>>

-----------------------------------------------------------------------------
(* Bounds of the model *)

MaxRequests == 4
MaxTime == 120

EvidenceIds == {"ev1", "ev2"}
IdOrder(id) == IF id = "ev1" THEN 1 ELSE 2
CaseIds == {"case1"}
TickHours == {60}

-----------------------------------------------------------------------------
(* Values *)

NULL == "null"
NoDate == -1
NaN == -999999999
Scale == 10000

Max(a, b) == IF a >= b THEN a ELSE b

Tiers ==
    {"SELF_AUTHENTICATING", "GOVERNMENT", "FINANCIAL_INSTITUTION",
     "INDEPENDENT_THIRD_PARTY", "BUSINESS_RECORDS", "FIRST_PARTY_ADVERSE",
     "FIRST_PARTY_FRIENDLY", "UNCORROBORATED_PERSON"}

Statuses == {"PENDING", "VERIFIED", "REQUIRES_CORROBORATION", "MINTED"}

-----------------------------------------------------------------------------
(* Decimal strings: Number.prototype.toFixed, String.prototype.padStart,    *)
(* parseFloat                                                               *)

DigitChars == <<"0", "1", "2", "3", "4", "5", "6", "7", "8", "9">>

IsDigit(c) == \E i \in 1..10 : DigitChars[i] = c

DigitVal(c) == (CHOOSE i \in 1..10 : DigitChars[i] = c) - 1

RECURSIVE NatToStr(_)
\* Number.prototype.toString of a non-negative integer
NatToStr(n) ==
    IF n < 10 THEN <<DigitChars[n + 1]>>
    ELSE NatToStr(n \div 10) \o <<DigitChars[(n % 10) + 1]>>

RECURSIVE PadStart(_, _, _)
\* s.padStart(len, c)
PadStart(s, len, c) == IF Len(s) >= len THEN s ELSE PadStart(<<c>> \o s, len, c)

\* x.toFixed(2), x in Scale units: the nearest hundredth of the magnitude, the
\* larger one on a tie, behind the sign
ToFixed2(x) ==
    IF x = NaN THEN <<"N", "a", "N">>
    ELSE LET neg == x < 0
             a == IF neg THEN -x ELSE x
             n == (a + 50) \div 100
         IN (IF neg THEN <<"-">> ELSE <<>>)
            \o NatToStr(n \div 100) \o <<".">>
            \o <<DigitChars[((n \div 10) % 10) + 1], DigitChars[(n % 10) + 1]>>

RECURSIVE DigitRun(_, _)
\* the length of the run of digits of s starting at position i
DigitRun(s, i) ==
    IF i > Len(s) \/ ~IsDigit(s[i]) THEN 0 ELSE 1 + DigitRun(s, i + 1)

RECURSIVE DigitsValue(_, _, _)
\* the value of the k digits of s starting at position i
DigitsValue(s, i, k) ==
    IF k = 0 THEN 0
    ELSE DigitsValue(s, i, k - 1) * 10 + DigitVal(s[i + k - 1])

RECURSIVE Pow10(_)
Pow10(k) == IF k = 0 THEN 1 ELSE 10 * Pow10(k - 1)

\* parseFloat(s), in Scale units: an optional sign, digits, an optional
\* fraction; the longest such prefix is read and NaN is returned when it holds
\* no digit.  Digits beyond the fourth decimal are dropped.
ParseFloat(s) ==
    LET neg == Len(s) >= 1 /\ s[1] = "-"
        i0 == IF neg THEN 2 ELSE 1
        ni == DigitRun(s, i0)
        dot == i0 + ni <= Len(s) /\ s[i0 + ni] = "."
        nf == IF dot THEN DigitRun(s, i0 + ni + 1) ELSE 0
        kf == IF nf > 4 THEN 4 ELSE nf
        mag == DigitsValue(s, i0, ni) * Scale
               + DigitsValue(s, i0 + ni + 1, kf) * Pow10(4 - kf)
    IN IF ni = 0 /\ nf = 0 THEN NaN
       ELSE IF neg THEN -mag ELSE mag

\* mutant of MathMax0: the floor at zero is lost
MathMax0_NoFloor(x) == x

\* Math.max(0, x)
MathMax0(x) == IF x = NaN THEN NaN ELSE Max(0, x)

-----------------------------------------------------------------------------
(* PostgreSQLStorage: reads *)

\* getEvidence: the row, or undefined when id is not in DOMAIN ev
HasEvidence(ev, id) == id \in DOMAIN ev

RECURSIVE InsertByTimestamp(_, _)
InsertByTimestamp(sorted, e) ==
    IF sorted = <<>> THEN <<e>>
    ELSE IF sorted[Len(sorted)].timestamp <= e.timestamp THEN Append(sorted, e)
    ELSE Append(InsertByTimestamp(SubSeq(sorted, 1, Len(sorted) - 1), e),
                sorted[Len(sorted)])

\* mutant of OrderByTimestamp: the entries come back in insertion order
OrderByTimestamp_Unsorted(entries) == entries

RECURSIVE OrderByTimestamp(_)
OrderByTimestamp(entries) ==
    IF entries = <<>> THEN <<>>
    ELSE InsertByTimestamp(OrderByTimestamp(SubSeq(entries, 1, Len(entries) - 1)),
                           entries[Len(entries)])

\* getChainOfCustody: the entries of one evidence item, ordered by timestamp
getChainOfCustody(cust, evidenceId) ==
    OrderByTimestamp(SelectSeq(cust, LAMBDA e : e.evidenceId = evidenceId))

\* calculateTrustScore: the tier's base score, as a two-decimal string
TierBaseScore(tier) ==
    CASE tier = "SELF_AUTHENTICATING" -> 9900
      [] tier = "GOVERNMENT" -> 9500
      [] tier = "FINANCIAL_INSTITUTION" -> 9000
      [] tier = "INDEPENDENT_THIRD_PARTY" -> 8000
      [] tier = "BUSINESS_RECORDS" -> 7000
      [] tier = "FIRST_PARTY_ADVERSE" -> 6000
      [] tier = "FIRST_PARTY_FRIENDLY" -> 4000
      [] tier = "UNCORROBORATED_PERSON" -> 2000

calculateTrustScore(tier) == ToFixed2(TierBaseScore(tier))

DefaultDegradationRate == <<"0", ".", "0", "0", "0", "1">>
FrozenDegradationRate == <<"0", ".", "0", "0", "0", "0">>
ZeroScore == <<"0", ".", "0", "0">>
FullScore == <<"1", ".", "0", "0">>

\* mutant of DecayedTrust: the decay is added instead of subtracted
DecayedTrust_Grows(originalTrust, degradationRate, hoursElapsed) ==
    IF originalTrust = NaN \/ degradationRate = NaN THEN NaN
    ELSE MathMax0(originalTrust + (degradationRate * hoursElapsed))

\* originalTrust - (degradationRate * hoursElapsed), floored by Math.max(0, .)
DecayedTrust(originalTrust, degradationRate, hoursElapsed) ==
    IF originalTrust = NaN \/ degradationRate = NaN THEN NaN
    ELSE MathMax0(originalTrust - (degradationRate * hoursElapsed))

\* calculateCurrentTrustScore(evidenceId) at time t
calculateCurrentTrustScore(ev, evidenceId, t) ==
    IF ~HasEvidence(ev, evidenceId) THEN ZeroScore
    ELSE LET e == ev[evidenceId] IN
         IF e.status = "MINTED" /\ e.mintedAt # NoDate THEN e.trustScore
         ELSE LET hoursElapsed == t - e.lastTrustUpdate
                  originalTrust == ParseFloat(e.originalTrustScore)
                  degradationRate ==
                      ParseFloat(IF e.trustDegradationRate = <<>>
                                 THEN DefaultDegradationRate
                                 ELSE e.trustDegradationRate)
              IN ToFixed2(DecayedTrust(originalTrust, degradationRate, hoursElapsed))

-----------------------------------------------------------------------------
(* calculateMintingEligibility: the six axes *)

\* tierScores[evidence.evidenceTier] || 0
SourceScore(tier) ==
    CASE tier = "SELF_AUTHENTICATING" -> 20
      [] tier = "GOVERNMENT" -> 18
      [] tier = "FINANCIAL_INSTITUTION" -> 16
      [] tier = "INDEPENDENT_THIRD_PARTY" -> 12
      [] tier = "BUSINESS_RECORDS" -> 8
      [] tier = "FIRST_PARTY_ADVERSE" -> 4
      [] tier = "FIRST_PARTY_FRIENDLY" -> 2
      [] tier = "UNCORROBORATED_PERSON" -> 0
      [] OTHER -> 0

\* mutant of TimeScore: the steps include their upper ends
TimeScore_Inclusive(ageHours) ==
    IF ageHours <= 24 THEN 15
    ELSE IF ageHours <= 168 THEN 12
    ELSE IF ageHours <= 720 THEN 8
    ELSE 0

TimeScore(ageHours) ==
    IF ageHours < 24 THEN 15
    ELSE IF ageHours < 168 THEN 12
    ELSE IF ageHours < 720 THEN 8
    ELSE 0

ChainScore(nRecords) ==
    IF nRecords >= 3 THEN 15
    ELSE IF nRecords >= 1 THEN 10
    ELSE 0

NetworkScore(corroborationCount) ==
    IF corroborationCount >= 3 THEN 20
    ELSE IF corroborationCount >= 2 THEN 15
    ELSE IF corroborationCount >= 1 THEN 8
    ELSE 0

OutcomesScore(status) ==
    IF status = "VERIFIED" \/ status = "MINTED" THEN 15
    ELSE IF status = "REQUIRES_CORROBORATION" THEN 5
    ELSE 0

JusticeScore(conflictCount) ==
    IF conflictCount = 0 THEN 15
    ELSE IF conflictCount = 1 THEN 8
    ELSE 0

\* A reason string: its leading mark (CHECK for U+2713, CROSS for U+2717, NONE
\* for no mark) and the fixed part of its text
Reason(mark, text) == [mark |-> mark, text |-> text]

SourceReason(score) ==
    IF score >= 16 THEN Reason("CHECK", "Source: High-tier evidence")
    ELSE IF score >= 8 THEN Reason("CHECK", "Source: Acceptable tier")
    ELSE Reason("CROSS", "Source: Low-tier evidence")

TimeReason(score) ==
    CASE score = 15 -> Reason("CHECK", "Time: Very recent evidence (<24h)")
      [] score = 12 -> Reason("CHECK", "Time: Recent evidence (<1 week)")
      [] score = 8 -> Reason("CHECK", "Time: Moderately recent (<30 days)")
      [] OTHER -> Reason("CROSS", "Time: Evidence is old (>30 days)")

ChainReason(score) ==
    CASE score = 15 -> Reason("CHECK", "Chain: Complete custody tracking")
      [] score = 10 -> Reason("CHECK", "Chain: Basic custody tracking")
      [] OTHER -> Reason("CROSS", "Chain: No custody tracking")

NetworkReason(score) ==
    CASE score = 20 -> Reason("CHECK", "Network: Strong corroboration")
      [] score = 15 -> Reason("CHECK", "Network: Good corroboration")
      [] score = 8 -> Reason("CHECK", "Network: Some corroboration")
      [] OTHER -> Reason("CROSS", "Network: No corroboration")

OutcomesReason(score) ==
    CASE score = 15 -> Reason("CHECK", "Outcomes: Evidence verified")
      [] score = 5 -> Reason("CROSS", "Outcomes: Requires corroboration")
      [] OTHER -> Reason("CROSS", "Outcomes: Not verified")

JusticeReason(score) ==
    CASE score = 15 -> Reason("CHECK", "Justice: No conflicts detected")
      [] score = 8 -> Reason("CROSS", "Justice: Minor conflicts present")
      [] OTHER -> Reason("CROSS", "Justice: Multiple conflicts")

\* mutant of EligibilityNotFound: the score is not written with two decimals
EligibilityNotFound_BareZero ==
    [eligible |-> FALSE, score |-> <<"0">>,
     reasons |-> <<Reason("NONE", "Evidence not found")>>,
     sixDScores |-> <<>>]

\* the result for an id with no evidence row
EligibilityNotFound ==
    [eligible |-> FALSE, score |-> ZeroScore,
     reasons |-> <<Reason("NONE", "Evidence not found")>>,
     sixDScores |-> <<>>]

\* mutant of TotalScore: the last axis is left out of the sum
TotalScore_DropsJustice(sixD) ==
    sixD.source + sixD.time + sixD.chain + sixD.network + sixD.outcomes

\* Object.values(sixDScores).reduce((sum, score) => sum + score, 0)
TotalScore(sixD) ==
    sixD.source + sixD.time + sixD.chain + sixD.network + sixD.outcomes + sixD.justice

\* finalScore >= 0.70, finalScore = totalScore / 100
IsEligible(totalScore) == totalScore * 100 >= 7000

\* the six axis scores of an existing row
SixDScores(e, nRecords, t) ==
    [source |-> SourceScore(e.evidenceTier),
     time |-> TimeScore(t - e.uploadedAt),
     chain |-> ChainScore(nRecords),
     network |-> NetworkScore(e.corroborationCount),
     outcomes |-> OutcomesScore(e.status),
     justice |-> JusticeScore(e.conflictCount)]

\* calculateMintingEligibility(evidenceId) at time t
calculateMintingEligibility(ev, cust, evidenceId, t) ==
    IF ~HasEvidence(ev, evidenceId) THEN EligibilityNotFound
    ELSE LET sixD == SixDScores(ev[evidenceId],
                                Len(getChainOfCustody(cust, evidenceId)), t)
             totalScore == TotalScore(sixD)
         IN [eligible |-> IsEligible(totalScore),
             score |-> ToFixed2(totalScore * 100),
             reasons |-> <<SourceReason(sixD.source), TimeReason(sixD.time),
                           ChainReason(sixD.chain), NetworkReason(sixD.network),
                           OutcomesReason(sixD.outcomes), JusticeReason(sixD.justice)>>,
             sixDScores |-> sixD]

-----------------------------------------------------------------------------
(* PostgreSQLStorage: writes.  Each returns the tables after the call and   *)
(* what the call returned (found = FALSE for undefined).                    *)

\* artifactId: `ART-${artifactCounter.toString().padStart(6, '0')}`
ArtifactId(artifactCounter) ==
    <<"A", "R", "T", "-">> \o PadStart(NatToStr(artifactCounter), 6, "0")

\* the row createEvidence inserts
NewEvidence(evidenceData, evidenceCount, t) ==
    LET originalTrust == calculateTrustScore(evidenceData.evidenceTier) IN
    [evidenceTier |-> evidenceData.evidenceTier,
     caseId |-> evidenceData.caseId,
     artifactId |-> ArtifactId(evidenceCount + 1),
     trustScore |-> originalTrust,
     originalTrustScore |-> originalTrust,
     status |-> "PENDING",
     blockNumber |-> NULL,
     hashValue |-> NULL,
     mintedAt |-> NoDate,
     trustDegradationRate |-> DefaultDegradationRate,
     lastTrustUpdate |-> t,
     corroborationCount |-> 0,
     conflictCount |-> 0,
     mintingEligible |-> FALSE,
     mintingScore |-> ZeroScore,
     chittytrustScore |-> ZeroScore,
     uploadedBy |-> evidenceData.caseId,
     uploadedAt |-> t,
     verifiedAt |-> NoDate]

\* createEvidence: insert the new row under a fresh id
createEvidence(ev, id, evidenceData, t) ==
    [x \in DOMAIN ev \cup {id} |->
        IF x = id THEN NewEvidence(evidenceData, Cardinality(DOMAIN ev), t) ELSE ev[x]]

\* SET updates: the columns named in updates are overwritten, keys that are no
\* column are ignored
Merge(row, updates) ==
    [f \in DOMAIN row |-> IF f \in DOMAIN updates THEN updates[f] ELSE row[f]]

\* updateEvidence: UPDATE ... SET updates WHERE id, then getEvidence(id)
updateEvidence(ev, id, updates) ==
    IF HasEvidence(ev, id)
    THEN [evidence |-> [ev EXCEPT ![id] = Merge(ev[id], updates)], found |-> TRUE]
    ELSE [evidence |-> ev, found |-> FALSE]

\* addChainOfCustodyEntry
addChainOfCustodyEntry(cust, entryData) == Append(cust, entryData)

CustodyEntry(evidenceId, action, performedBy, t, location, hashBefore, hashAfter) ==
    [evidenceId |-> evidenceId, action |-> action, performedBy |-> performedBy,
     timestamp |-> t, location |-> location,
     hashBefore |-> hashBefore, hashAfter |-> hashAfter]

\* the updates verifyEvidence writes
VerifyUpdates(t) ==
    [status |-> "VERIFIED", verifiedAt |-> t, lastTrustUpdate |-> t]

\* verifyEvidence without its custody entry
verifyEvidence_NoCustodyEntry(ev, cust, evidenceId, t) ==
    LET upd == updateEvidence(ev, evidenceId, VerifyUpdates(t)) IN
    IF upd.found
    THEN [evidence |-> upd.evidence, custody |-> cust, found |-> TRUE]
    ELSE [evidence |-> ev, custody |-> cust, found |-> FALSE]

\* verifyEvidence(evidenceId) at time t
verifyEvidence(ev, cust, evidenceId, t) ==
    LET upd == updateEvidence(ev, evidenceId, VerifyUpdates(t)) IN
    IF upd.found
    THEN LET updatedEvidence == upd.evidence[evidenceId] IN
         [evidence |-> upd.evidence,
          custody |-> addChainOfCustodyEntry(cust,
              CustodyEntry(evidenceId, "VERIFIED", updatedEvidence.uploadedBy, t,
                           "Legal Platform", updatedEvidence.hashValue,
                           updatedEvidence.hashValue)),
          found |-> TRUE]
    ELSE [evidence |-> ev, custody |-> cust, found |-> FALSE]

\* the updates mintEvidence writes
MintUpdates(currentTrust, blockNumber, hashValue, t) ==
    [status |-> "MINTED",
     blockNumber |-> blockNumber,
     hashValue |-> hashValue,
     mintedAt |-> t,
     trustScore |-> currentTrust,
     trustDegradationRate |-> FrozenDegradationRate,
     lastTrustUpdate |-> t,
     mintingEligible |-> TRUE,
     mintingScore |-> FullScore]

\* mintEvidence(evidenceId, blockNumber, hashValue) at time t
mintEvidence(ev, cust, evidenceId, blockNumber, hashValue, t) ==
    LET currentTrust == calculateCurrentTrustScore(ev, evidenceId, t)
        upd == updateEvidence(ev, evidenceId,
                              MintUpdates(currentTrust, blockNumber, hashValue, t))
    IN IF upd.found
       THEN LET updatedEvidence == upd.evidence[evidenceId] IN
            [evidence |-> upd.evidence,
             custody |-> addChainOfCustodyEntry(cust,
                 CustodyEntry(evidenceId, "MINTED", updatedEvidence.uploadedBy, t,
                              "Blockchain", updatedEvidence.hashValue, hashValue)),
             found |-> TRUE]
       ELSE [evidence |-> ev, custody |-> cust, found |-> FALSE]

-----------------------------------------------------------------------------
(* HTTP: requests and responses *)

\* a thrown ChittyChainError as the errorHandler answers it
ErrorResponse(op, id, statusCode, code, message) ==
    [op |-> op, id |-> id, status |-> statusCode,
     body |-> [code |-> code, error |-> message]]

ValidationError(op, id, message) ==
    ErrorResponse(op, id, 400, "VALIDATION_ERROR", message)

NotFoundError(op, id) ==
    ErrorResponse(op, id, 404, "NOT_FOUND", "Evidence not found")

JsonResponse(op, id, statusCode, body) ==
    [op |-> op, id |-> id, status |-> statusCode, body |-> body]

\* mutant of Truthy: a missing (undefined) value passes the check
Truthy_MissingPasses(v) == v # ""

\* a JavaScript string used as a condition: null, undefined and "" are falsy
Truthy(v) == v # NULL /\ v # ""

\* updates.f, undefined (NULL) when the body has no key f
Field(updates, f) == IF f \in DOMAIN updates THEN updates[f] ELSE NULL

\* request bodies of POST /api/evidence
CreateTiers == {"SELF_AUTHENTICATING", "UNCORROBORATED_PERSON"}

CreateBodies == [evidenceTier : CreateTiers, caseId : CaseIds]

\* request bodies of PATCH /api/evidence/:id (any JSON object is accepted)
PatchBodies ==
    [status : {"REQUIRES_CORROBORATION", "MINTED"}]
    \cup [trustScore : {FullScore}]
    \cup [originalTrustScore : {<<"0", ".", "5", "0">>}]
    \cup [trustDegradationRate : {DefaultDegradationRate}]
    \cup [corroborationCount : {3}]
    \cup [conflictCount : {2}]
    \cup [status : {"MINTED"}, blockNumber : {"100"}, hashValue : {"0xaa"}]

\* request bodies of POST /api/evidence/:id/mint
MintBodies ==
    {[blockNumber |-> "100", hashValue |-> "0xaa"],
     [blockNumber |-> "200", hashValue |-> "0xbb"],
     [blockNumber |-> "100"],
     [hashValue |-> "0xaa"]}

\* randomUUID(): an id no row has; which one does not matter, so the first
\* unused one is taken
FreshIds(ev) ==
    IF EvidenceIds \subseteq DOMAIN ev THEN {}
    ELSE {CHOOSE id \in EvidenceIds \ DOMAIN ev :
              \A other \in EvidenceIds \ DOMAIN ev : IdOrder(id) <= IdOrder(other)}

Init ==
    /\ evidence = <<>>
    /\ custody = <<>>
    /\ now = 0
    /\ response = JsonResponse("none", NULL, 0, <<>>)
    /\ mintedScore = [id \in EvidenceIds |-> <<>>]
    /\ requests = 0
    /\ atomicFacts = <<>>
    /\ contradictions = <<>>
    /\ storage = "PostgreSQLStorage"
    /\ inflight = <<>>
    /\ dispatched = <<>>
    /\ logs = <<>>

\* time passes
Tick ==
    \E d \in TickHours :
        /\ now + d <= MaxTime
        /\ now' = now + d
        /\ UNCHANGED <<evidence, custody, response, mintedScore, requests>>
        /\ UNCHANGED <<atomicFacts, contradictions, storage, inflight, dispatched, logs>>

\* POST /api/evidence
PostEvidence ==
    \E id \in FreshIds(evidence), validatedData \in CreateBodies :
        /\ requests < MaxRequests
        /\ requests' = requests + 1
        /\ evidence' = createEvidence(evidence, id, validatedData, now)
        /\ custody' = addChainOfCustodyEntry(custody,
               CustodyEntry(id, "UPLOADED", evidence'[id].uploadedBy, now,
                            "Digital Upload", NULL, evidence'[id].hashValue))
        /\ response' = JsonResponse("POST /api/evidence", id, 201, evidence'[id])
        /\ UNCHANGED <<now, mintedScore, atomicFacts, contradictions, storage, inflight, dispatched, logs>>

\* PATCH /api/evidence/:id
PatchEvidence ==
    \E id \in EvidenceIds, updates \in PatchBodies :
        LET upd == updateEvidence(evidence, id, updates) IN
        /\ requests < MaxRequests
        /\ requests' = requests + 1
        /\ evidence' = upd.evidence
        /\ IF ~upd.found
           THEN /\ response' = NotFoundError("PATCH /api/evidence/:id", id)
                /\ custody' = custody
           ELSE LET updatedEvidence == upd.evidence[id] IN
                /\ custody' =
                       IF Truthy(Field(updates, "status")) \/ Truthy(Field(updates, "blockNumber"))
                       THEN addChainOfCustodyEntry(custody,
                                CustodyEntry(id,
                                    IF Field(updates, "status") = "MINTED"
                                    THEN "MINTED" ELSE "UPDATED",
                                    IF Truthy(Field(updates, "verifiedBy"))
                                    THEN Field(updates, "verifiedBy")
                                    ELSE updatedEvidence.uploadedBy,
                                    now, "Blockchain Network",
                                    updatedEvidence.hashValue,
                                    IF Truthy(Field(updates, "hashValue"))
                                    THEN Field(updates, "hashValue")
                                    ELSE updatedEvidence.hashValue))
                       ELSE custody
                /\ response' = JsonResponse("PATCH /api/evidence/:id", id, 200, updatedEvidence)
        /\ UNCHANGED <<now, mintedScore, atomicFacts, contradictions, storage, inflight, dispatched, logs>>

\* POST /api/evidence/:id/verify for the given id
VerifyEvidenceRequest(id) ==
        LET r == verifyEvidence(evidence, custody, id, now) IN
        /\ requests < MaxRequests
        /\ requests' = requests + 1
        /\ evidence' = r.evidence
        /\ custody' = r.custody
        /\ response' =
               IF r.found
               THEN JsonResponse("POST /api/evidence/:id/verify", id, 200, r.evidence[id])
               ELSE NotFoundError("POST /api/evidence/:id/verify", id)
        /\ UNCHANGED <<now, mintedScore, atomicFacts, contradictions, storage, inflight, dispatched, logs>>

\* POST /api/evidence/:id/verify
VerifyEvidence ==
    \E id \in EvidenceIds : VerifyEvidenceRequest(id)

\* POST /api/evidence/:id/mint with the given request body
MintEvidenceRequest(id, body) ==
        LET op == "POST /api/evidence/:id/mint"
            blockNumber == Field(body, "blockNumber")
            hashValue == Field(body, "hashValue")
            eligibility == calculateMintingEligibility(evidence, custody, id, now)
            r == mintEvidence(evidence, custody, id, blockNumber, hashValue, now)
        IN
        /\ requests < MaxRequests
        /\ requests' = requests + 1
        /\ IF ~Truthy(blockNumber) \/ ~Truthy(hashValue)
           THEN /\ response' = ValidationError(op, id, "Block number and hash value are required")
                /\ UNCHANGED <<evidence, custody, mintedScore>>
           ELSE IF ~eligibility.eligible
           THEN /\ response' = ValidationError(op, id, "Evidence not eligible for minting")
                /\ UNCHANGED <<evidence, custody, mintedScore>>
           ELSE IF ~r.found
           THEN /\ response' = NotFoundError(op, id)
                /\ UNCHANGED <<evidence, custody, mintedScore>>
           ELSE /\ evidence' = r.evidence
                /\ custody' = r.custody
                /\ mintedScore' =
                       IF mintedScore[id] = <<>>
                       THEN [mintedScore EXCEPT ![id] = r.evidence[id].trustScore]
                       ELSE mintedScore
                /\ response' = JsonResponse(op, id, 200, r.evidence[id])
        /\ UNCHANGED <<now, atomicFacts, contradictions, storage, inflight, dispatched, logs>>

\* POST /api/evidence/:id/mint
MintEvidence ==
    \E id \in EvidenceIds, body \in MintBodies : MintEvidenceRequest(id, body)

\* GET /api/evidence/:id/minting-eligibility
GetMintingEligibility ==
    \E id \in EvidenceIds :
        /\ response' = JsonResponse("GET /api/evidence/:id/minting-eligibility", id, 200,
                                    calculateMintingEligibility(evidence, custody, id, now))
        /\ UNCHANGED <<evidence, custody, now, mintedScore, requests>>
        /\ UNCHANGED <<atomicFacts, contradictions, storage, inflight, dispatched, logs>>

\* GET /api/evidence/:id/trust
GetTrust ==
    \E id \in EvidenceIds :
        LET op == "GET /api/evidence/:id/trust"
            currentTrust == calculateCurrentTrustScore(evidence, id, now)
        IN
        /\ response' =
               IF ~HasEvidence(evidence, id) THEN NotFoundError(op, id)
               ELSE JsonResponse(op, id, 200,
                        [evidenceId |-> id,
                         currentTrustScore |-> currentTrust,
                         originalTrustScore |-> evidence[id].originalTrustScore,
                         status |-> evidence[id].status,
                         mintedAt |-> evidence[id].mintedAt,
                         verifiedAt |-> evidence[id].verifiedAt,
                         degradationRate |-> evidence[id].trustDegradationRate,
                         lastUpdate |-> evidence[id].lastTrustUpdate])
        /\ UNCHANGED <<evidence, custody, now, mintedScore, requests>>
        /\ UNCHANGED <<atomicFacts, contradictions, storage, inflight, dispatched, logs>>

\* The HTTP interface on an initially empty store
Next ==
    \/ Tick
    \/ PostEvidence
    \/ PatchEvidence
    \/ VerifyEvidence
    \/ MintEvidence

Spec == Init /\ [][Next]_vars

\* The dedicated lifecycle endpoints alone (create, verify, mint), without the
\* generic PATCH
NextLifecycle ==
    \/ Tick
    \/ PostEvidence
    \/ VerifyEvidence
    \/ MintEvidence

SpecLifecycle == Init /\ [][NextLifecycle]_vars

-----------------------------------------------------------------------------
(* The read-only scoring endpoints over a store drawn from bounded sets *)

MaxCustody == 3
MaxCorroboration == 3
MaxConflicts == 2

\* ages at and around the steps of the Time axis (2 hours ... 400 days)
AgeHours == {2, 23, 24, 167, 168, 719, 720, 9600}

\* a row as createEvidence makes it at uploadedAt, with the given columns
StoredEvidence(tier, uploadedAt, overrides) ==
    Merge(NewEvidence([evidenceTier |-> tier, caseId |-> "case1"], 0, uploadedAt),
          overrides)

\* n custody entries of one evidence item, all written at time t
RECURSIVE CustodyEntries(_, _, _)
CustodyEntries(evidenceId, n, t) ==
    IF n = 0 THEN <<>>
    ELSE Append(CustodyEntries(evidenceId, n - 1, t),
                CustodyEntry(evidenceId, IF n = 1 THEN "UPLOADED" ELSE "ACCESSED",
                             "case1", t, "Digital Upload", NULL, NULL))

\* ev1 is any row over the inputs of the six axes; ev2 is absent, or a freshly
\* uploaded row with its one custody entry
InitEligibility ==
    \E tier \in Tiers, age \in AgeHours, n \in 0..MaxCustody,
       corroborationCount \in 0..MaxCorroboration, status \in Statuses,
       conflictCount \in 0..MaxConflicts, other \in BOOLEAN :
        LET t == 9600
            row1 == StoredEvidence(tier, t - age,
                        [corroborationCount |-> corroborationCount,
                         status |-> status, conflictCount |-> conflictCount])
            row2 == StoredEvidence("BUSINESS_RECORDS", t, <<>>)
        IN
        /\ now = t
        /\ evidence = IF other THEN [id \in {"ev1", "ev2"} |-> IF id = "ev1" THEN row1 ELSE row2]
                      ELSE [id \in {"ev1"} |-> row1]
        /\ custody = CustodyEntries("ev1", n, t - age)
                     \o (IF other THEN CustodyEntries("ev2", 1, t) ELSE <<>>)
        /\ response = JsonResponse("none", NULL, 0, <<>>)
        /\ mintedScore = [id \in EvidenceIds |-> <<>>]
        /\ requests = 0
        /\ atomicFacts = <<>>
        /\ contradictions = <<>>
        /\ storage = "PostgreSQLStorage"
        /\ inflight = <<>>
        /\ dispatched = <<>>
        /\ logs = <<>>

NextEligibility == GetMintingEligibility

SpecEligibility == InitEligibility /\ [][NextEligibility]_vars

\* the hour of the first query: on and around the rounding step of the default
\* rate (50 hours) and the floor of the overridden one
StartHours == {0, 1, 20, 50, 51}

OverriddenDegradationRate == <<"0", ".", "0", "1", "0", "0">>

DegradationRates ==
    {<<>>, FrozenDegradationRate, DefaultDegradationRate, OverriddenDegradationRate}

\* ev1 is any row over the inputs of the decay, last updated at hour 0
InitTrust ==
    \E tier \in Tiers, rate \in DegradationRates, status \in Statuses, start \in StartHours :
        /\ now = start
        /\ evidence = [id \in {"ev1"} |->
               StoredEvidence(tier, 0,
                   [trustDegradationRate |-> rate, status |-> status,
                    mintedAt |-> IF status = "MINTED" THEN 0 ELSE NoDate])]
        /\ custody = CustodyEntries("ev1", 1, 0)
        /\ response = JsonResponse("none", NULL, 0, <<>>)
        /\ mintedScore = [id \in EvidenceIds |-> <<>>]
        /\ requests = 0
        /\ atomicFacts = <<>>
        /\ contradictions = <<>>
        /\ storage = "PostgreSQLStorage"
        /\ inflight = <<>>
        /\ dispatched = <<>>
        /\ logs = <<>>

NextTrust ==
    \/ Tick
    \/ GetTrust

SpecTrust == InitTrust /\ [][NextTrust]_vars

-----------------------------------------------------------------------------
(* MemStorage, the in-memory IStorage.  Its Maps keep insertion order; the   *)
(* Dates of its sample data are the hours of 2024-01-15 they fall in, and    *)
(* the constructor runs at hour MemStartHour.                                *)

SeedIds == {"seed1", "seed2", "seed3"}

\* a sample Evidence of initializeData
MemSeedRow(artifactNumber, tier, trustScore, status, blockNumber, hashValue, uploadedAt, verifiedAt) ==
    [artifactId |-> ArtifactId(artifactNumber),
     evidenceTier |-> tier,
     trustScore |-> trustScore,
     status |-> status,
     blockNumber |-> blockNumber,
     hashValue |-> hashValue,
     caseId |-> "case1",
     uploadedBy |-> "attorney1",
     uploadedAt |-> uploadedAt,
     verifiedAt |-> verifiedAt]

\* evidence1, evidence2, evidence3 of initializeData
MemSeedEvidence ==
    [id \in SeedIds |->
        CASE id = "seed1" ->
                 MemSeedRow(847, "FINANCIAL_INSTITUTION", <<"0", ".", "9", "4">>,
                            "MINTED", "2847291", "0x4a7b", 9, 11)
          [] id = "seed2" ->
                 MemSeedRow(848, "INDEPENDENT_THIRD_PARTY", <<"0", ".", "8", "0">>,
                            "PENDING", NULL, NULL, 10, NoDate)
          [] id = "seed3" ->
                 MemSeedRow(849, "UNCORROBORATED_PERSON", <<"0", ".", "2", "0">>,
                            "REQUIRES_CORROBORATION", NULL, NULL, 14, NoDate)]

\* fact1 of initializeData
MemSeedFacts ==
    <<[factId |-> "FACT-0034",
       content |-> <<"P", "a", "y", "m", "e", "n", "t", " ", "o", "f", " ", "$", "1", "5", ",", "0", "0", "0", " ", "r", "e", "c", "e", "i", "v", "e", "d", " ", "o", "n", " ", "J", "a", "n", "u", "a", "r", "y", " ", "1", "2", ",", " ", "2", "0", "2", "4">>,
       factType |-> "AMOUNT",
       confidenceScore |-> <<"0", ".", "8", "9">>,
       evidenceId |-> "seed1",
       extractedAt |-> 12,
       verifiedAt |-> 12]>>

\* contradiction1 of initializeData
MemSeedContradictions ==
    <<[conflictId |-> "CONFLICT-0034",
       contradictionType |-> "TEMPORAL",
       severity |-> "high",
       status |-> "active",
       evidenceId1 |-> "seed1",
       evidenceId2 |-> "seed2",
       detectedAt |-> 15,
       resolvedAt |-> NoDate]>>

\* custody1, custody2 of initializeData
MemSeedCustody ==
    <<CustodyEntry("seed1", "UPLOADED", "attorney1", 9, "Law Office", NULL, "0x4a7b"),
      CustodyEntry("seed1", "VERIFIED", "clerk1", 11, "Courthouse", "0x4a7b", "0x4a7b")>>

\* MemStorage.calculateTrustScore: its own copy of the table
MemTierBaseScore(tier) ==
    CASE tier = "SELF_AUTHENTICATING" -> 9900
      [] tier = "GOVERNMENT" -> 9500
      [] tier = "FINANCIAL_INSTITUTION" -> 9000
      [] tier = "INDEPENDENT_THIRD_PARTY" -> 8000
      [] tier = "BUSINESS_RECORDS" -> 7000
      [] tier = "FIRST_PARTY_ADVERSE" -> 6000
      [] tier = "FIRST_PARTY_FRIENDLY" -> 4000
      [] tier = "UNCORROBORATED_PERSON" -> 2000

MemCalculateTrustScore(tier) == ToFixed2(MemTierBaseScore(tier))

\* MemStorage.createEvidence: the Evidence it stores under the fresh id
MemNewEvidence(evidenceData, size, t) ==
    LET set == [artifactId |-> ArtifactId(size + 1),
                trustScore |-> MemCalculateTrustScore(evidenceData.evidenceTier),
                status |-> "PENDING",
                blockNumber |-> NULL,
                hashValue |-> NULL,
                uploadedBy |-> evidenceData.caseId,
                uploadedAt |-> t,
                verifiedAt |-> NoDate]
    IN [f \in DOMAIN evidenceData \cup DOMAIN set |->
           IF f \in DOMAIN set THEN set[f] ELSE evidenceData[f]]

MemCreateEvidence(ev, id, evidenceData, t) ==
    [x \in DOMAIN ev \cup {id} |->
        IF x = id THEN MemNewEvidence(evidenceData, Cardinality(DOMAIN ev), t) ELSE ev[x]]

\* { ...evidence, ...updates }
MemMerge(row, updates) ==
    [f \in DOMAIN row \cup DOMAIN updates |->
        IF f \in DOMAIN updates THEN updates[f] ELSE row[f]]

\* MemStorage.updateEvidence
MemUpdateEvidence(ev, id, updates) ==
    IF HasEvidence(ev, id)
    THEN [evidence |-> [ev EXCEPT ![id] = MemMerge(ev[id], updates)], found |-> TRUE]
    ELSE [evidence |-> ev, found |-> FALSE]

\* MemStorage.addChainOfCustodyEntry: set under a fresh key
MemAddChainOfCustodyEntry(cust, entryData) == Append(cust, entryData)

\* MemStorage.getChainOfCustody: filter, then sort by timestamp
MemGetChainOfCustody(cust, evidenceId) ==
    OrderByTimestamp(SelectSeq(cust, LAMBDA entry : entry.evidenceId = evidenceId))

\* MemStorage.getActiveContradictions, PostgreSQLStorage.getActiveContradictions
getActiveContradictions(table) ==
    SelectSeq(table, LAMBDA c : c.status = "active")

-----------------------------------------------------------------------------
(* The IStorage interface called directly, on either implementation *)

MemStartHour == 24

\* the number of mutating calls made on the interface
MaxCalls == 3

\* a tier name that is not one of the eight of EvidenceTier (the cast
\* `as EvidenceTier` checks nothing at run time)
UnknownTier == "EXPERT_WITNESS"

\* scores[tier] is undefined, so scores[tier].toFixed throws a TypeError
HasTierScore(tier) == tier \in Tiers

Thrown(op, id, name) ==
    [op |-> op, id |-> id, status |-> 500, body |-> [threw |-> name]]

Returned(op, id, value) ==
    [op |-> op, id |-> id, status |-> 200, body |-> value]

\* new PostgreSQLStorage() on empty tables
InitPostgreSQL == Init

\* new MemStorage(): initializeData
InitMem ==
    /\ evidence = MemSeedEvidence
    /\ custody = MemSeedCustody
    /\ atomicFacts = MemSeedFacts
    /\ contradictions = MemSeedContradictions
    /\ now = MemStartHour
    /\ response = JsonResponse("none", NULL, 0, <<>>)
    /\ mintedScore = [id \in EvidenceIds |-> <<>>]
    /\ requests = 0
    /\ storage = "MemStorage"
    /\ inflight = <<>>
    /\ dispatched = <<>>
    /\ logs = <<>>

StorageTiers == {"SELF_AUTHENTICATING", "BUSINESS_RECORDS", UnknownTier}

StorageUpdates ==
    [conflictCount : {1}] \cup [evidenceTier : {UnknownTier}]

\* the timestamps a caller puts in an entry: the present, or an earlier hour
EntryHours == {0}

\* storage.createEvidence(evidenceData)
CreateEvidenceCall ==
    \E id \in FreshIds(evidence), tier \in StorageTiers :
        LET op == "createEvidence"
            evidenceData == [evidenceTier |-> tier, caseId |-> "case1"]
        IN
        /\ requests < MaxCalls
        /\ requests' = requests + 1
        /\ IF ~HasTierScore(tier)
           THEN /\ response' = Thrown(op, id, "TypeError")
                /\ evidence' = evidence
           ELSE /\ evidence' = IF storage = "MemStorage"
                               THEN MemCreateEvidence(evidence, id, evidenceData, now)
                               ELSE createEvidence(evidence, id, evidenceData, now)
                /\ response' = Returned(op, id, evidence'[id])
        /\ UNCHANGED <<custody, now, mintedScore, atomicFacts, contradictions, storage, inflight, dispatched, logs>>

\* storage.updateEvidence(id, updates)
UpdateEvidenceCall ==
    \E id \in DOMAIN evidence, updates \in StorageUpdates :
        LET upd == IF storage = "MemStorage"
                   THEN MemUpdateEvidence(evidence, id, updates)
                   ELSE updateEvidence(evidence, id, updates)
        IN
        /\ requests < MaxCalls
        /\ requests' = requests + 1
        /\ evidence' = upd.evidence
        /\ response' = Returned("updateEvidence", id, upd.evidence[id])
        /\ UNCHANGED <<custody, now, mintedScore, atomicFacts, contradictions, storage, inflight, dispatched, logs>>

\* storage.addChainOfCustodyEntry(entryData)
AddChainOfCustodyEntryCall ==
    \E id \in DOMAIN evidence, timestamp \in EntryHours \cup {now} :
        LET entryData == CustodyEntry(id, "ACCESSED", "clerk1", timestamp,
                                      "Courthouse", NULL, NULL)
        IN
        /\ requests < MaxCalls
        /\ requests' = requests + 1
        /\ custody' = IF storage = "MemStorage"
                      THEN MemAddChainOfCustodyEntry(custody, entryData)
                      ELSE addChainOfCustodyEntry(custody, entryData)
        /\ response' = Returned("addChainOfCustodyEntry", id, entryData)
        /\ UNCHANGED <<evidence, now, mintedScore, atomicFacts, contradictions, storage, inflight, dispatched, logs>>

\* storage.getChainOfCustody(evidenceId)
GetChainOfCustodyCall ==
    \E id \in DOMAIN evidence :
        /\ response' = Returned("getChainOfCustody", id,
               IF storage = "MemStorage" THEN MemGetChainOfCustody(custody, id)
               ELSE getChainOfCustody(custody, id))
        /\ UNCHANGED <<evidence, custody, now, mintedScore, requests>>
        /\ UNCHANGED <<atomicFacts, contradictions, storage, inflight, dispatched, logs>>

\* storage.calculateMintingEligibility(evidenceId), which PostgreSQLStorage alone has
CalculateMintingEligibilityCall ==
    \E id \in DOMAIN evidence :
        /\ storage = "PostgreSQLStorage"
        /\ response' = Returned("calculateMintingEligibility", id,
               calculateMintingEligibility(evidence, custody, id, now))
        /\ UNCHANGED <<evidence, custody, now, mintedScore, requests>>
        /\ UNCHANGED <<atomicFacts, contradictions, storage, inflight, dispatched, logs>>

InitStorage == InitPostgreSQL \/ InitMem

NextStorage ==
    \/ Tick
    \/ CreateEvidenceCall
    \/ UpdateEvidenceCall
    \/ AddChainOfCustodyEntryCall
    \/ GetChainOfCustodyCall
    \/ CalculateMintingEligibilityCall

SpecStorage == InitStorage /\ [][NextStorage]_vars

-----------------------------------------------------------------------------
(* Text of atomic facts: String.prototype.toLowerCase, includes, trim, and  *)
(* the word characters of the regular expressions                           *)

UpperChars == <<"A", "B", "C", "D", "E", "F", "G", "H", "I", "J", "K", "L", "M", "N", "O", "P", "Q", "R", "S", "T", "U", "V", "W", "X", "Y", "Z">>

LowerChars == <<"a", "b", "c", "d", "e", "f", "g", "h", "i", "j", "k", "l", "m", "n", "o", "p", "q", "r", "s", "t", "u", "v", "w", "x", "y", "z">>

\* the lower-case letter of each upper-case letter
LowerOf ==
    [c \in {UpperChars[i] : i \in 1..Len(UpperChars)} |->
        LowerChars[CHOOSE i \in 1..Len(UpperChars) : UpperChars[i] = c]]

ToLowerChar(c) == IF c \in DOMAIN LowerOf THEN LowerOf[c] ELSE c

RECURSIVE ToLowerCase(_)
\* s.toLowerCase()
ToLowerCase(s) ==
    IF s = <<>> THEN <<>> ELSE <<ToLowerChar(Head(s))>> \o ToLowerCase(Tail(s))

\* s.includes(sub)
Includes(s, sub) ==
    \E i \in 1..(Len(s) - Len(sub) + 1) : SubSeq(s, i, i + Len(sub) - 1) = sub

\* \w of a regular expression: [A-Za-z0-9_]
WordChars ==
    {UpperChars[i] : i \in 1..Len(UpperChars)}
    \cup {LowerChars[i] : i \in 1..Len(LowerChars)}
    \cup {DigitChars[i] : i \in 1..Len(DigitChars)}
    \cup {"_"}

IsWordChar(c) == c \in WordChars

\* \s of a regular expression, over the characters the fact texts use
IsSpace(c) == c = " "

\* \b between positions i - 1 and i of s, where s[i] is a word character
WordStartsAt(s, i) == i = 1 \/ ~IsWordChar(s[i - 1])

\* \b between positions i and i + 1 of s, where s[i] is a word character
WordEndsAt(s, i) == i = Len(s) \/ ~IsWordChar(s[i + 1])

\* k digits of s at position i
DigitsAt(s, i, k) == i + k - 1 <= Len(s) /\ \A j \in i..(i + k - 1) : IsDigit(s[j])

\* s.trim(): s between its first and its last character that is not a space
Trim(s) ==
    LET kept == {i \in 1..Len(s) : ~IsSpace(s[i])}
    IN IF kept = {} THEN <<>>
       ELSE SubSeq(s, CHOOSE i \in kept : \A j \in kept : i <= j,
                      CHOOSE i \in kept : \A j \in kept : i >= j)

-----------------------------------------------------------------------------
(* ContradictionDetectionEngine: helper methods.  A Date is the hour of its *)
(* instant; new Date(y, m, d) is a midnight of a zone without daylight      *)
(* saving, so two parsed dates differ by whole days.  Amounts are in cents. *)

Cents == 100

\* extractNumber's null, apart from every amount and from NaN
NoNumber == NaN - 1

\* the days from 1970-01-01 to the first of month m (1..12) of year y
DaysFromCivil(y, m) ==
    LET yy == IF m <= 2 THEN y - 1 ELSE y
        era == yy \div 400
        yoe == yy - era * 400
        mp == IF m > 2 THEN m - 3 ELSE m + 9
        doy == (153 * mp + 2) \div 5
        doe == yoe * 365 + yoe \div 4 - yoe \div 100 + doy
    IN era * 146097 + doe - 719468

\* new Date(year, monthIndex, day): a year 0..99 is 1900 + year, a month
\* index outside 0..11 and a day outside the month carry over
NewDate(year, monthIndex, day) ==
    LET y == IF year <= 99 THEN 1900 + year ELSE year
        carry == IF monthIndex < 0 THEN -1 ELSE monthIndex \div 12
        m == monthIndex - carry * 12
    IN (DaysFromCivil(y + carry, m + 1) + (day - 1)) * 24

\* /\b([0-9]{1,2})[\/\-]([0-9]{1,2})[\/\-]([0-9]{4})\b/ matches at i with
\* groups of l1, l2 and 4 digits
DateMatchAt(s, i, l1, l2) ==
    /\ i + l1 + l2 + 5 <= Len(s)
    /\ DigitsAt(s, i, l1)
    /\ WordStartsAt(s, i)
    /\ s[i + l1] \in {"/", "-"}
    /\ DigitsAt(s, i + l1 + 1, l2)
    /\ s[i + l1 + l2 + 1] \in {"/", "-"}
    /\ DigitsAt(s, i + l1 + l2 + 2, 4)
    /\ WordEndsAt(s, i + l1 + l2 + 5)

\* /\b([0-9]{4})-([0-9]{2})-([0-9]{2})\b/ matches at i
IsoMatchAt(s, i) ==
    /\ i + 9 <= Len(s)
    /\ DigitsAt(s, i, 4)
    /\ WordStartsAt(s, i)
    /\ s[i + 4] = "-"
    /\ DigitsAt(s, i + 5, 2)
    /\ s[i + 7] = "-"
    /\ DigitsAt(s, i + 8, 2)
    /\ WordEndsAt(s, i + 9)

\* the least member of a non-empty set of positions: the leftmost match
Leftmost(positions) == CHOOSE i \in positions : \A j \in positions : i <= j

\* parseDate(content): month/day/year first, then year-month-day, else null
parseDate(content) ==
    LET lens == {<<1, 1>>, <<1, 2>>, <<2, 1>>, <<2, 2>>}
        dateAt == {i \in 1..Len(content) :
                      \E l \in lens : DateMatchAt(content, i, l[1], l[2])}
        isoAt == {i \in 1..Len(content) : IsoMatchAt(content, i)}
    IN IF dateAt # {}
       THEN LET i == Leftmost(dateAt)
                l == CHOOSE x \in lens : DateMatchAt(content, i, x[1], x[2])
            IN NewDate(DigitsValue(content, i + l[1] + l[2] + 2, 4),
                       DigitsValue(content, i, l[1]) - 1,
                       DigitsValue(content, i + l[1] + 1, l[2]))
       ELSE IF isoAt # {}
       THEN LET i == Leftmost(isoAt)
            IN NewDate(DigitsValue(content, i, 4),
                       DigitsValue(content, i + 5, 2) - 1,
                       DigitsValue(content, i + 8, 2))
       ELSE NoDate

\* [0-9,]
IsAmountChar(c) == IsDigit(c) \/ c = ","

\* the character classes [0-9,], \w, \S, [.!?] and [^.!?]
InClass(c, class) ==
    CASE class = "[0-9,]" -> IsAmountChar(c)
      [] class = "\\w" -> IsWordChar(c)
      [] class = "\\S" -> ~IsSpace(c)
      [] class = "[.!?]" -> c \in {".", "!", "?"}
      [] class = "[^.!?]" -> c \notin {".", "!", "?"}

\* the length of the longest run of characters of the class in s from
\* position i on: a greedy + or *
RunLength(s, i, class) ==
    CHOOSE n \in 0..(Len(s) - i + 1) :
        /\ \A j \in i..(i + n - 1) : InClass(s[j], class)
        /\ i + n > Len(s) \/ ~InClass(s[i + n], class)

\* extractNumber(content): the first match of /[\$]?([0-9,]+(?:\.[0-9]{2})?)/
\* without its commas, through parseFloat; null when nothing matches
extractNumber(content) ==
    LET startAt == {i \in 1..Len(content) :
                       \/ IsAmountChar(content[i])
                       \/ /\ content[i] = "$"
                          /\ i < Len(content)
                          /\ IsAmountChar(content[i + 1])}
    IN IF startAt = {} THEN NoNumber
       ELSE LET i == Leftmost(startAt)
                g == IF content[i] = "$" THEN i + 1 ELSE i
                n == RunLength(content, g, "[0-9,]")
                cents == /\ g + n <= Len(content)
                         /\ content[g + n] = "."
                         /\ DigitsAt(content, g + n + 1, 2)
                \* .replace(/,/g, '')
                whole == SelectSeq(SubSeq(content, g, g + n - 1),
                                   LAMBDA c : c # ",")
            IN IF whole = <<>> /\ ~cents THEN NaN
               ELSE DigitsValue(whole, 1, Len(whole)) * Cents
                    + (IF cents THEN DigitsValue(content, g + n + 1, 2) ELSE 0)

SimultaneousIndicators ==
    <<<<"p", "a", "y", "m", "e", "n", "t">>, <<"s", "i", "g", "n", "a", "t", "u", "r", "e">>, <<"m", "e", "e", "t", "i", "n", "g">>, <<"i", "n", "c", "i", "d", "e", "n", "t">>, <<"a", "c", "c", "i", "d", "e", "n", "t">>>>

\* shouldBeSimultaneous: some indicator occurs in both texts
shouldBeSimultaneous(fact1, fact2) ==
    LET content1 == ToLowerCase(fact1.content)
        content2 == ToLowerCase(fact2.content)
    IN \E k \in 1..Len(SimultaneousIndicators) :
           /\ Includes(content1, SimultaneousIndicators[k])
           /\ Includes(content2, SimultaneousIndicators[k])

\* shouldBeEqualAmounts: both texts say payment, or invoice, or amount
shouldBeEqualAmounts(fact1, fact2) ==
    LET content1 == ToLowerCase(fact1.content)
        content2 == ToLowerCase(fact2.content)
    IN \/ Includes(content1, <<"p", "a", "y", "m", "e", "n", "t">>) /\ Includes(content2, <<"p", "a", "y", "m", "e", "n", "t">>)
       \/ Includes(content1, <<"i", "n", "v", "o", "i", "c", "e">>) /\ Includes(content2, <<"i", "n", "v", "o", "i", "c", "e">>)
       \/ Includes(content1, <<"a", "m", "o", "u", "n", "t">>) /\ Includes(content2, <<"a", "m", "o", "u", "n", "t">>)

\* shouldBeSameLocation
shouldBeSameLocation(loc1, loc2) == TRUE

StreetWords ==
    {<<"s", "t", "r", "e", "e", "t">>, <<"s", "t">>, <<"a", "v", "e", "n", "u", "e">>, <<"a", "v", "e">>, <<"r", "o", "a", "d">>, <<"r", "d">>}

RECURSIVE StripStreetWords(_, _)
\* s.replace(/\b(street|st|avenue|ave|road|rd)\b/gi, '') from position i, a
\* position where a word or a separator starts
StripStreetWords(s, i) ==
    IF i > Len(s) THEN <<>>
    ELSE IF IsWordChar(s[i])
    THEN LET n == RunLength(s, i, "\\w")
             word == SubSeq(s, i, i + n - 1)
         IN (IF ToLowerCase(word) \in StreetWords THEN <<>> ELSE word)
            \o StripStreetWords(s, i + n)
    ELSE <<s[i]>> \o StripStreetWords(s, i + 1)

\* areLocationsSimilar: one normalised text contains the other
areLocationsSimilar(loc1, loc2) ==
    LET normalized1 == Trim(StripStreetWords(loc1, 1))
        normalized2 == Trim(StripStreetWords(loc2, 1))
    IN Includes(normalized1, normalized2) \/ Includes(normalized2, normalized1)

RECURSIVE SplitWords(_, _)
\* text.split(/\s+/) from position i, as the set of its pieces
SplitWords(s, i) ==
    IF i > Len(s) THEN {}
    ELSE IF IsSpace(s[i]) THEN SplitWords(s, i + 1)
    ELSE LET n == RunLength(s, i, "\\S")
         IN {SubSeq(s, i, i + n - 1)} \cup SplitWords(s, i + n)

\* new Set(text.split(/\s+/)): the words, and the empty piece before a
\* leading or after a trailing separator (or of the empty text)
WordSet(s) ==
    SplitWords(s, 1)
    \cup (IF s = <<>> \/ IsSpace(s[1]) \/ IsSpace(s[Len(s)]) THEN {<<>>} ELSE {})

\* calculateSemanticSimilarity(text1, text2) > 0.7: the Jaccard ratio
\* intersection.size / union.size against 7 / 10
SimilarityAbove70(text1, text2) ==
    LET words1 == WordSet(text1)
        words2 == WordSet(text2)
    IN Cardinality(words1 \cap words2) * 10 > 7 * Cardinality(words1 \cup words2)

OppositeWords ==
    <<<<<<"p", "r", "e", "s", "e", "n", "t">>, <<"a", "b", "s", "e", "n", "t">>>>, <<<<"a", "l", "i", "v", "e">>, <<"d", "e", "a", "d">>>>,
      <<<<"g", "u", "i", "l", "t", "y">>, <<"i", "n", "n", "o", "c", "e", "n", "t">>>>, <<<<"b", "e", "f", "o", "r", "e">>, <<"a", "f", "t", "e", "r">>>>,
      <<<<"i", "n", "s", "i", "d", "e">>, <<"o", "u", "t", "s", "i", "d", "e">>>>>>

\* hasOppositeImplication
hasOppositeImplication(text1, text2) ==
    \E k \in 1..Len(OppositeWords) :
        \/ Includes(text1, OppositeWords[k][1]) /\ Includes(text2, OppositeWords[k][2])
        \/ Includes(text1, OppositeWords[k][2]) /\ Includes(text2, OppositeWords[k][1])

\* shouldHaveSimilarTrustScores
shouldHaveSimilarTrustScores(evidence1, evidence2) ==
    /\ evidence1.evidenceTier = evidence2.evidenceTier
    /\ evidence1.caseId = evidence2.caseId

\* mutant of calculateTemporalSeverity: the day threshold taken for the month
\* threshold
calculateTemporalSeverity_DayIsHigh(hoursDiff) ==
    IF hoursDiff > 24 * 365 THEN "critical"
    ELSE IF hoursDiff > 24 THEN "high"
    ELSE "low"

\* calculateTemporalSeverity
calculateTemporalSeverity(hoursDiff) ==
    IF hoursDiff > 24 * 365 THEN "critical"
    ELSE IF hoursDiff > 24 * 30 THEN "high"
    ELSE IF hoursDiff > 24 THEN "medium"
    ELSE "low"

-----------------------------------------------------------------------------
(* ContradictionDetectionEngine: the comparisons and the detectors.  A      *)
(* ContradictionResult is its type, severity, confidence (in Scale units)   *)
(* and the two evidence ids; description and metadata are left out.  A      *)
(* comparison returns the empty sequence for null, else its one result.     *)

\* mutant of minimumConfidence: a threshold of 0.8
minimumConfidence_Raised == Scale - 2000

minimumConfidence == 7000

temporalToleranceHours == 1

ContradictionResult(type, severity, confidence, evidence1Id, evidence2Id) ==
    [type |-> type, severity |-> severity, confidence |-> confidence,
     evidence1Id |-> evidence1Id, evidence2Id |-> evidence2Id]

Abs(x) == IF x < 0 THEN -x ELSE x

RECURSIVE Flatten(_)
\* contradictions.push(...) of each sequence in turn
Flatten(seqs) ==
    IF seqs = <<>> THEN <<>> ELSE Head(seqs) \o Flatten(Tail(seqs))

\* the pairs <<x, y>> in the order xs.forEach(x => ys.forEach(y => ...))
\* visits them
ForEachPair(xs, ys) ==
    [k \in 1..(Len(xs) * Len(ys)) |->
        <<xs[((k - 1) \div Len(ys)) + 1], ys[((k - 1) % Len(ys)) + 1]>>]

FactsOfType(facts, types) == SelectSeq(facts, LAMBDA f : f.factType \in types)

compareTemporalFacts(fact1, fact2, evidence1Id, evidence2Id) ==
    LET date1 == parseDate(fact1.content)
        date2 == parseDate(fact2.content)
    IN IF date1 = NoDate \/ date2 = NoDate THEN <<>>
       ELSE LET hoursDiff == Abs(date1 - date2) IN
            IF shouldBeSimultaneous(fact1, fact2) /\ hoursDiff > temporalToleranceHours
            THEN <<ContradictionResult("TEMPORAL", calculateTemporalSeverity(hoursDiff),
                                       9000, evidence1Id, evidence2Id)>>
            ELSE <<>>

NegationPairs ==
    <<<<<<"d", "i", "d">>, <<"d", "i", "d", " ", "n", "o", "t">>>>, <<<<"w", "a", "s">>, <<"w", "a", "s", " ", "n", "o", "t">>>>,
      <<<<"w", "i", "l", "l">>, <<"w", "i", "l", "l", " ", "n", "o", "t">>>>, <<<<"c", "a", "n">>, <<"c", "a", "n", "n", "o", "t">>>>,
      <<<<"p", "r", "e", "s", "e", "n", "t">>, <<"a", "b", "s", "e", "n", "t">>>>, <<<<"g", "u", "i", "l", "t", "y">>, <<"i", "n", "n", "o", "c", "e", "n", "t">>>>,
      <<<<"t", "r", "u", "e">>, <<"f", "a", "l", "s", "e">>>>>>

\* mutant of DirectNegation: only the first text may hold the positive form
DirectNegation_OneWay(content1, content2) ==
    \E k \in 1..Len(NegationPairs) :
        Includes(content1, NegationPairs[k][1]) /\ Includes(content2, NegationPairs[k][2])

\* the loop over negationPairs returns at the first pair found either way
DirectNegation(content1, content2) ==
    \E k \in 1..Len(NegationPairs) :
        \/ Includes(content1, NegationPairs[k][1]) /\ Includes(content2, NegationPairs[k][2])
        \/ Includes(content1, NegationPairs[k][2]) /\ Includes(content2, NegationPairs[k][1])

compareStatements(stmt1, stmt2, evidence1Id, evidence2Id) ==
    LET content1 == ToLowerCase(stmt1.content)
        content2 == ToLowerCase(stmt2.content)
    IN IF DirectNegation(content1, content2)
       THEN <<ContradictionResult("FACTUAL", "high", 8500, evidence1Id, evidence2Id)>>
       ELSE IF SimilarityAbove70(content1, content2)
               /\ hasOppositeImplication(content1, content2)
       THEN <<ContradictionResult("FACTUAL", "medium", 7500, evidence1Id, evidence2Id)>>
       ELSE <<>>

\* percentDiff > percent, where percentDiff is
\* (difference / Math.max(amount1, amount2)) * 100: NaN for a NaN amount and
\* for two zero amounts, and then no comparison holds
PercentDiffAbove(amount1, amount2, percent) ==
    /\ amount1 # NaN
    /\ amount2 # NaN
    /\ Max(amount1, amount2) > 0
    /\ Abs(amount1 - amount2) * 100 > percent * Max(amount1, amount2)

compareNumericalFacts(fact1, fact2, evidence1Id, evidence2Id) ==
    LET amount1 == extractNumber(fact1.content)
        amount2 == extractNumber(fact2.content)
    IN IF amount1 = NoNumber \/ amount2 = NoNumber THEN <<>>
       ELSE IF shouldBeEqualAmounts(fact1, fact2) /\ PercentDiffAbove(amount1, amount2, 5)
       THEN <<ContradictionResult("NUMERICAL",
                                  IF PercentDiffAbove(amount1, amount2, 50)
                                  THEN "high" ELSE "medium",
                                  9000, evidence1Id, evidence2Id)>>
       ELSE <<>>

compareLocations(loc1, loc2, evidence1Id, evidence2Id) ==
    LET location1 == ToLowerCase(loc1.content)
        location2 == ToLowerCase(loc2.content)
    IN IF shouldBeSameLocation(loc1, loc2) /\ ~areLocationsSimilar(location1, location2)
       THEN <<ContradictionResult("LOCATION", "high", 8000, evidence1Id, evidence2Id)>>
       ELSE <<>>

detectTemporalContradictions(facts1, facts2, evidence1Id, evidence2Id) ==
    LET pairs == ForEachPair(FactsOfType(facts1, {"DATE"}),
                             FactsOfType(facts2, {"DATE"}))
    IN Flatten([k \in 1..Len(pairs) |->
                   compareTemporalFacts(pairs[k][1], pairs[k][2], evidence1Id, evidence2Id)])
       \o <<>>  \* detectImpossibleSequences returns []

detectFactualContradictions(facts1, facts2, evidence1Id, evidence2Id) ==
    LET pairs == ForEachPair(FactsOfType(facts1, {"STATEMENT"}),
                             FactsOfType(facts2, {"STATEMENT"}))
    IN Flatten([k \in 1..Len(pairs) |->
                   compareStatements(pairs[k][1], pairs[k][2], evidence1Id, evidence2Id)])

detectNumericalContradictions(facts1, facts2, evidence1Id, evidence2Id) ==
    LET pairs == ForEachPair(FactsOfType(facts1, {"AMOUNT", "TRANSACTION"}),
                             FactsOfType(facts2, {"AMOUNT", "TRANSACTION"}))
    IN Flatten([k \in 1..Len(pairs) |->
                   compareNumericalFacts(pairs[k][1], pairs[k][2], evidence1Id, evidence2Id)])

\* detectRoleConflicts returns []
detectIdentityContradictions == <<>>

detectLocationContradictions(facts1, facts2, evidence1Id, evidence2Id) ==
    LET pairs == ForEachPair(FactsOfType(facts1, {"LOCATION"}),
                             FactsOfType(facts2, {"LOCATION"}))
    IN Flatten([k \in 1..Len(pairs) |->
                   compareLocations(pairs[k][1], pairs[k][2], evidence1Id, evidence2Id)])

\* detectPhysicalImpossibilities and detectCausalImpossibilities return []
detectLogicalContradictions == <<>>

\* the trust scores of one tier and case more than 0.3 apart; two uploads by
\* one user less than an hour apart
detectMetadataContradictions(ev, evidence1Id, evidence2Id) ==
    LET evidence1 == ev[evidence1Id]
        evidence2 == ev[evidence2Id]
        trust1 == ParseFloat(evidence1.trustScore)
        trust2 == ParseFloat(evidence2.trustScore)
        hoursDiff == Abs(evidence1.uploadedAt - evidence2.uploadedAt)
    IN (IF /\ shouldHaveSimilarTrustScores(evidence1, evidence2)
           /\ trust1 # NaN
           /\ trust2 # NaN
           /\ Abs(trust1 - trust2) > 3000
        THEN <<ContradictionResult("METADATA", "medium", 8000, evidence1Id, evidence2Id)>>
        ELSE <<>>)
       \o (IF hoursDiff < 1 /\ evidence1.uploadedBy = evidence2.uploadedBy
           THEN <<ContradictionResult("METADATA", "high", 7500, evidence1Id, evidence2Id)>>
           ELSE <<>>)

\* the local `contradictions` of detectContradictions before its filter
DetectorResults(ev, evidence1Id, evidence2Id, facts1, facts2) ==
    detectTemporalContradictions(facts1, facts2, evidence1Id, evidence2Id)
    \o detectFactualContradictions(facts1, facts2, evidence1Id, evidence2Id)
    \o detectNumericalContradictions(facts1, facts2, evidence1Id, evidence2Id)
    \o detectIdentityContradictions
    \o detectLocationContradictions(facts1, facts2, evidence1Id, evidence2Id)
    \o detectLogicalContradictions
    \o detectMetadataContradictions(ev, evidence1Id, evidence2Id)

detectContradictions(ev, evidence1Id, evidence2Id, facts1, facts2) ==
    SelectSeq(DetectorResults(ev, evidence1Id, evidence2Id, facts1, facts2),
              LAMBDA c : c.confidence >= minimumConfidence)

\* getFactsByEvidence
getFactsByEvidence(facts, evidenceId) ==
    SelectSeq(facts, LAMBDA f : f.evidenceId = evidenceId)

-----------------------------------------------------------------------------
(* contradictionDetector.detectContradictions called on two stored evidence *)
(* items and their stored facts                                             *)

\* the number of facts stored for the two items together
MaxFacts == 2

\* fact types and texts the extractor families produce
SampleFacts ==
    <<[factType |-> "DATE", content |-> <<"P", "a", "y", "m", "e", "n", "t", " ", "0", "1", "/", "0", "5", "/", "2", "0", "2", "4">>],
      [factType |-> "DATE", content |-> <<"p", "a", "y", "m", "e", "n", "t", " ", "1", "/", "1", "5", "/", "2", "0", "2", "4">>],
      [factType |-> "DATE", content |-> <<"p", "a", "y", "m", "e", "n", "t", " ", "2", "0", "2", "4", "-", "0", "3", "-", "1", "5">>],
      [factType |-> "DATE", content |-> <<"p", "a", "y", "m", "e", "n", "t", " ", "1", "2", "-", "2", "5", "-", "2", "0", "2", "2">>],
      [factType |-> "DATE", content |-> <<"m", "e", "e", "t", "i", "n", "g", " ", "0", "1", "/", "0", "5", "/", "2", "0", "2", "3">>],
      [factType |-> "AMOUNT", content |-> <<"i", "n", "v", "o", "i", "c", "e", " ", "a", "m", "o", "u", "n", "t", " ", "$", "1", ",", "0", "0", "0">>],
      [factType |-> "AMOUNT", content |-> <<"I", "n", "v", "o", "i", "c", "e", " ", "a", "m", "o", "u", "n", "t", " ", "$", "1", ",", "6", "0", "0">>],
      [factType |-> "AMOUNT", content |-> <<"i", "n", "v", "o", "i", "c", "e", " ", "a", "m", "o", "u", "n", "t", " ", "$", "4", "0", "0", ".", "0", "0">>],
      [factType |-> "TRANSACTION", content |-> <<"a", "m", "o", "u", "n", "t", " ", "1", ",", "0", "4", "0", " ", "p", "a", "i", "d">>],
      [factType |-> "STATEMENT", content |-> <<"h", "e", " ", "d", "i", "d", " ", "s", "i", "g", "n">>],
      [factType |-> "STATEMENT", content |-> <<"h", "e", " ", "d", "i", "d", " ", "n", "o", "t", " ", "s", "i", "g", "n">>],
      [factType |-> "STATEMENT", content |-> <<"x", " ", "l", "e", "f", "t", " ", "a", " ", "b", " ", "c", " ", "d", " ", "e", " ", "b", "e", "f", "o", "r", "e">>],
      [factType |-> "STATEMENT", content |-> <<"x", " ", "l", "e", "f", "t", " ", "a", " ", "b", " ", "c", " ", "d", " ", "e", " ", "a", "f", "t", "e", "r">>],
      [factType |-> "LOCATION", content |-> <<"1", "2", " ", "M", "a", "i", "n", " ", "S", "t">>],
      [factType |-> "LOCATION", content |-> <<"1", "2", " ", "m", "a", "i", "n", " ", "s", "t", "r", "e", "e", "t">>],
      [factType |-> "LOCATION", content |-> <<"9", " ", "O", "a", "k", " ", "R", "o", "a", "d">>]>>

\* the k-th stored fact: sample (k + 1) \div 2, of ev1 when k is odd and of
\* ev2 when k is even
StoredFact(k) ==
    [factId |-> k,
     content |-> SampleFacts[(k + 1) \div 2].content,
     factType |-> SampleFacts[(k + 1) \div 2].factType,
     evidenceId |-> IF k % 2 = 1 THEN "ev1" ELSE "ev2"]

\* the second evidence item, against a BUSINESS_RECORDS item uploaded by
\* case1 at hour 0: as far as the metadata detector tells them apart
SecondEvidence ==
    {StoredEvidence("BUSINESS_RECORDS", 0, [trustScore |-> <<"0", ".", "3", "0">>]),
     StoredEvidence("BUSINESS_RECORDS", 5, <<>>),
     StoredEvidence("UNCORROBORATED_PERSON", 0, [uploadedBy |-> "attorney1"])}

DetectionResponse(evidence1Id, evidence2Id, value) ==
    [op |-> "detectContradictions", id |-> evidence1Id, id2 |-> evidence2Id,
     status |-> 200, body |-> value]

InitDetect ==
    \E second \in SecondEvidence, n \in 0..MaxFacts :
        \E ks \in [1..n -> 1..(2 * Len(SampleFacts))] :
            /\ \A i \in 1..(n - 1) : ks[i] < ks[i + 1]
            /\ evidence = [id \in {"ev1", "ev2"} |->
                              IF id = "ev1"
                              THEN StoredEvidence("BUSINESS_RECORDS", 0, <<>>)
                              ELSE second]
            /\ atomicFacts = [i \in 1..n |-> StoredFact(ks[i])]
            /\ custody = <<>>
            /\ contradictions = <<>>
            /\ now = 5
            /\ response = JsonResponse("none", NULL, 0, <<>>)
            /\ mintedScore = [id \in EvidenceIds |-> <<>>]
            /\ requests = 0
            /\ storage = "PostgreSQLStorage"
            /\ inflight = <<>>
            /\ dispatched = <<>>
            /\ logs = <<>>

DetectContradictionsCall ==
    \E evidence1Id \in DOMAIN evidence, evidence2Id \in DOMAIN evidence :
        /\ evidence1Id # evidence2Id
        /\ response' = DetectionResponse(evidence1Id, evidence2Id,
                           detectContradictions(evidence, evidence1Id, evidence2Id,
                               getFactsByEvidence(atomicFacts, evidence1Id),
                               getFactsByEvidence(atomicFacts, evidence2Id)))
        /\ UNCHANGED <<evidence, custody, now, mintedScore, requests,
                       atomicFacts, contradictions, storage, inflight, dispatched, logs>>

NextDetect == DetectContradictionsCall

SpecDetect == InitDetect /\ [][NextDetect]_vars

-----------------------------------------------------------------------------
(* Logger (src/unnamed/part_010, lines 22-180).  An entry's id stands for   *)
(* its randomUUID(): a number no entry of the buffer carries, taken in       *)
(* logging order.  Console output is not modelled.                           *)

maxLogs == 10000

LogLevels == {"ERROR", "WARN", "INFO", "DEBUG"}

FreshLogId(buffer) == IF buffer = <<>> THEN 1 ELSE buffer[Len(buffer)].id + 1

LogEntry(id, timestamp, level, message, evidenceId) ==
    [id |-> id, timestamp |-> timestamp, level |-> level, message |-> message,
     metadata |-> [evidenceId |-> evidenceId]]

\* xs.slice(-n) for n > 0
SliceLast(xs, n) ==
    IF Len(xs) <= n THEN xs ELSE SubSeq(xs, Len(xs) - n + 1, Len(xs))

\* xs.slice(0, end)
SliceTo(xs, end) ==
    LET to == IF end < 0 THEN Max(Len(xs) + end, 0) ELSE end
    IN SubSeq(xs, 1, IF to < Len(xs) THEN to ELSE Len(xs))

\* xs.slice().reverse()
Reverse(xs) == [i \in 1..Len(xs) |-> xs[Len(xs) + 1 - i]]

\* Logger.createLog: this.logs after the call
createLog(buffer, timestamp, level, message, evidenceId) ==
    LET pushed == Append(buffer, LogEntry(FreshLogId(buffer), timestamp, level,
                                          message, evidenceId))
    IN IF Len(pushed) > maxLogs THEN SliceLast(pushed, maxLogs) ELSE pushed

\* Logger.getLogs(limit, level); an omitted argument is NoNumber / NULL
getLogs(buffer, limit, level) ==
    LET filteredLogs == IF level # NULL
                        THEN SelectSeq(buffer, LAMBDA log : log.level = level)
                        ELSE buffer
        result == Reverse(filteredLogs)
    IN IF limit # NoNumber /\ limit # 0 THEN SliceTo(result, limit) ELSE result

-----------------------------------------------------------------------------
(* FactExtractionEngine (src/server/scientific-trust-scoring.ts, lines      *)
(* 477-977).  The texts of SampleTexts are lower-case prose without month    *)
(* names, numeric dates, titles, street words, "us", "dollar", "%",          *)
(* "contract" or "agreement", so extractDates, extractPersons,               *)
(* extractLocations, the other currency patterns, the percentage pattern     *)
(* and the contract patterns find nothing in them; the evidence references   *)
(* are business records, for which extractSpecializedFacts runs neither the  *)
(* financial nor the government patterns.  A confidence is a number in       *)
(* Scale units; the thresholds of ExtractionConfigs are values on which the  *)
(* sums of the code's doubles and the exact sums compare alike.              *)

ExtractedFact(content, factType, confidenceScore) ==
    [content |-> content, factType |-> factType, confidenceScore |-> confidenceScore]

\* getContext(content, position, length), position counted from 0
getContext(content, position, length) ==
    LET start == Max(0, position - length)
        end == IF position + length < Len(content) THEN position + length
               ELSE Len(content)
    IN Trim(SubSeq(content, start + 1, end))

Clamp(lo, x, hi) == IF x < lo THEN lo ELSE IF x > hi THEN hi ELSE x

\* amount.endsWith(suffix)
EndsWith(s, suffix) ==
    Len(s) >= Len(suffix) /\ SubSeq(s, Len(s) - Len(suffix) + 1, Len(s)) = suffix

calculateAmountConfidence(amount, context) ==
    LET lower == ToLowerCase(context)
        structured == \/ Includes(lower, <<"p", "a", "y", "m", "e", "n", "t">>)
                      \/ Includes(lower, <<"i", "n", "v", "o", "i", "c", "e">>)
                      \/ Includes(lower, <<"b", "i", "l", "l">>)
        round == EndsWith(amount, <<"0", "0", ".", "0", "0">>) \/ EndsWith(amount, <<"0", "0", "0">>)
    IN Clamp(Scale \div 10,
             7 * (Scale \div 10) + (IF structured THEN 2 * (Scale \div 10) ELSE 0)
                                 - (IF round THEN Scale \div 10 ELSE 0),
             Scale)

\* the matches of /\$([0-9,]+(?:\.[0-9]{2})?)/g from position i on: group 1
\* and the index of the match
RECURSIVE AmountMatches(_, _)
AmountMatches(content, i) ==
    IF i >= Len(content) THEN <<>>
    ELSE IF content[i] = "$" /\ IsAmountChar(content[i + 1])
    THEN LET n == RunLength(content, i + 1, "[0-9,]")
             cents == /\ i + n + 1 <= Len(content)
                      /\ content[i + n + 1] = "."
                      /\ DigitsAt(content, i + n + 2, 2)
             last == IF cents THEN i + n + 3 ELSE i + n
         IN <<[amount |-> SubSeq(content, i + 1, last), index |-> i - 1]>>
            \o AmountMatches(content, last + 1)
    ELSE AmountMatches(content, i + 1)

extractAmounts(content) ==
    LET matches == AmountMatches(content, 1)
    IN [k \in 1..Len(matches) |->
           ExtractedFact(<<"A", "m", "o", "u", "n", "t", ":", " ">> \o matches[k].amount, "AMOUNT",
               calculateAmountConfidence(matches[k].amount,
                   getContext(content, matches[k].index, 50)))]

\* content.split(/[.!?]+/) from position i on, without its empty pieces
\* (which the length filter of extractStatements drops)
RECURSIVE SplitSentences(_, _)
SplitSentences(s, i) ==
    IF i > Len(s) THEN <<>>
    ELSE LET n == RunLength(s, i, "[^.!?]")
         IN IF n = 0 THEN SplitSentences(s, i + RunLength(s, i, "[.!?]"))
            ELSE <<SubSeq(s, i, i + n - 1)>> \o SplitSentences(s, i + n)

\* statement.startsWith(prefix)
StartsWith(s, prefix) == Len(s) >= Len(prefix) /\ SubSeq(s, 1, Len(prefix)) = prefix

isFactualStatement(statement) ==
    LET lower == ToLowerCase(statement)
        factualIndicators == {<<"o", "c", "c", "u", "r", "r", "e", "d">>, <<"h", "a", "p", "p", "e", "n", "e", "d">>, <<"w", "a", "s">>, <<"w", "e", "r", "e">>, <<"d", "i", "d">>,
                              <<"s", "t", "a", "t", "e", "d">>, <<"s", "a", "i", "d">>, <<"r", "e", "c", "e", "i", "v", "e", "d">>, <<"p", "a", "i", "d">>, <<"s", "i", "g", "n", "e", "d">>}
    IN IF \/ Includes(statement, <<"?">>)
          \/ StartsWith(lower, <<"i", " ", "t", "h", "i", "n", "k">>)
          \/ StartsWith(lower, <<"i", "n", " ", "m", "y", " ", "o", "p", "i", "n", "i", "o", "n">>)
          \/ Includes(lower, <<"p", "a", "g", "e", " ">>)
          \/ Len(statement) < 20
       THEN FALSE
       ELSE \E indicator \in factualIndicators : Includes(lower, indicator)

\* /\b[0-9]{1,2}:[0-9]{2}\b/.test(statement)
HasTime(statement) ==
    \E i \in 1..Len(statement), k \in 1..2 :
        /\ DigitsAt(statement, i, k)
        /\ WordStartsAt(statement, i)
        /\ i + k <= Len(statement)
        /\ statement[i + k] = ":"
        /\ DigitsAt(statement, i + k + 1, 2)
        /\ WordEndsAt(statement, i + k + 2)

\* /\$[0-9,]+/.test(statement)
HasMoney(statement) ==
    \E i \in 1..(Len(statement) - 1) :
        statement[i] = "$" /\ IsAmountChar(statement[i + 1])

calculateStatementConfidence(statement) ==
    LET lower == ToLowerCase(statement)
        factualIndicators == {<<"o", "c", "c", "u", "r", "r", "e", "d">>, <<"h", "a", "p", "p", "e", "n", "e", "d">>, <<"s", "t", "a", "t", "e", "d">>, <<"t", "e", "s", "t", "i", "f", "i", "e", "d">>,
                              <<"w", "i", "t", "n", "e", "s", "s", "e", "d">>, <<"o", "b", "s", "e", "r", "v", "e", "d">>, <<"d", "o", "c", "u", "m", "e", "n", "t", "e", "d">>}
        found == Cardinality({indicator \in factualIndicators : Includes(lower, indicator)})
        confidence == 5 * (Scale \div 10) + found * (Scale \div 10)
                      + (IF HasTime(statement) THEN Scale \div 10 ELSE 0)
                      + (IF HasMoney(statement) THEN Scale \div 10 ELSE 0)
    IN IF confidence > Scale THEN Scale ELSE confidence

extractStatements(content) ==
    LET sentences == SelectSeq(SplitSentences(content, 1), LAMBDA s : Len(Trim(s)) > 10)
        factual == SelectSeq(sentences, LAMBDA s : isFactualStatement(Trim(s)))
    IN [k \in 1..Len(factual) |->
           ExtractedFact(Trim(factual[k]), "STATEMENT",
                         calculateStatementConfidence(Trim(factual[k])))]

\* defaultConfig, overridden by the caller's config
defaultConfig ==
    [enableAmountExtraction |-> TRUE, enableStatementExtraction |-> TRUE,
     minimumConfidence |-> 6 * (Scale \div 10)]

\* extractFacts(evidence, content, config): the facts it resolves to; no
\* statement of it inspects evidence.id
extractFacts(ref, content, config) ==
    LET extractionConfig == Merge(defaultConfig, config)
        facts == (IF extractionConfig.enableAmountExtraction
                  THEN extractAmounts(content) ELSE <<>>)
                 \o (IF extractionConfig.enableStatementExtraction
                     THEN extractStatements(content) ELSE <<>>)
    IN SelectSeq(facts, LAMBDA fact :
                     fact.confidenceScore >= extractionConfig.minimumConfidence)

SampleTexts ==
    <<<<>>,
      <<"?", "?", "?">>,
      <<"p", "a", "i", "d", " ", "$", "5", "0", "0", " ", "f", "o", "r", " ", "r", "e", "n", "t">>,
      <<"t", "h", "e", " ", "i", "n", "v", "o", "i", "c", "e", " ", "o", "f", " ", "$", "2", ",", "0", "0", "0", " ", "w", "a", "s", " ", "p", "a", "i", "d", " ", "o", "n", " ", "t", "i", "m", "e", ".", " ", "i", "s", " ", "i", "t", " ", "s", "o", "?">>,
      <<"i", " ", "t", "h", "i", "n", "k", " ", "i", "t", " ", "w", "a", "s", " ", "$", "4", "0", ".", "5", "0", "!", " ", "t", "h", "e", " ", "w", "i", "t", "n", "e", "s", "s", " ", "s", "t", "a", "t", "e", "d", " ", "t", "h", "a", "t", " ", "i", "t", " ", "h", "a", "p", "p", "e", "n", "e", "d", " ", "a", "t", " ", "1", "0", ":", "3", "0">>,
      <<"h", "e", " ", "r", "e", "c", "e", "i", "v", "e", "d", " ", "$", "9", ".", "5", " ", "a", "n", "d", " ", "s", "i", "g", "n", "e", "d">>>>

EvidenceRefs ==
    {[id |-> "ev1", fileType |-> "text/plain", evidenceTier |-> "BUSINESS_RECORDS"],
     [fileType |-> "text/plain", evidenceTier |-> "BUSINESS_RECORDS"]}

ExtractionConfigs ==
    {<<>>} \cup
    [{"enableAmountExtraction"} -> BOOLEAN] \cup
    [{"enableStatementExtraction"} -> BOOLEAN] \cup
    [{"minimumConfidence"} -> {0, 75 * (Scale \div 100)}]

ExtractionResponse(ref, content, config, facts) ==
    [op |-> "extractFacts", id |-> Field(ref, "id"), status |-> 200,
     body |-> facts, content |-> content, config |-> config]

InitExtract ==
    /\ evidence = <<>>
    /\ custody = <<>>
    /\ now = 0
    /\ response = JsonResponse("none", NULL, 0, <<>>)
    /\ mintedScore = [id \in EvidenceIds |-> <<>>]
    /\ requests = 0
    /\ atomicFacts = <<>>
    /\ contradictions = <<>>
    /\ storage = "PostgreSQLStorage"
    /\ inflight = <<>>
    /\ dispatched = <<>>
    /\ logs = <<>>

\* factExtractor.extractFacts(evidence, content, config)
ExtractFactsCall ==
    \E ref \in EvidenceRefs, t \in 1..Len(SampleTexts), config \in ExtractionConfigs :
        /\ requests < MaxCalls
        /\ requests' = requests + 1
        /\ response' = ExtractionResponse(ref, SampleTexts[t], config,
                           extractFacts(ref, SampleTexts[t], config))
        /\ logs' = createLog(
                       createLog(logs, now, "INFO", "Starting fact extraction",
                                 Field(ref, "id")),
                       now, "INFO", "Fact extraction completed", Field(ref, "id"))
        /\ UNCHANGED <<evidence, custody, now, mintedScore>>
        /\ UNCHANGED <<atomicFacts, contradictions, storage, inflight, dispatched>>

NextExtract == ExtractFactsCall

SpecExtract == InitExtract /\ [][NextExtract]_vars

-----------------------------------------------------------------------------
(* BayesianEvidenceAssessment, EvidenceQualityCalculator and                *)
(* ScientificTrustEngine (src/server/scientific-trust-scoring.ts, lines     *)
(* 30-453).  Metrics, weights, priors and confidences are numbers in Scale  *)
(* units; every sum of the code that is compared with a threshold has been  *)
(* computed in doubles for the inputs below and falls on the same side of   *)
(* the threshold as the exact sum.  The posterior is kept as an exact       *)
(* fraction; errorBounds (a square root), recommendations and limitations   *)
(* are not modelled.                                                        *)

priorProbabilities(tier) ==
    CASE tier = "SELF_AUTHENTICATING" -> 9500
      [] tier = "GOVERNMENT" -> 9200
      [] tier = "FINANCIAL_INSTITUTION" -> 8800
      [] tier = "INDEPENDENT_THIRD_PARTY" -> 7500
      [] tier = "BUSINESS_RECORDS" -> 7000
      [] tier = "FIRST_PARTY_ADVERSE" -> 6000
      [] tier = "FIRST_PARTY_FRIENDLY" -> 4500
      [] tier = "UNCORROBORATED_PERSON" -> 2500
      [] OTHER -> 5000

likelihoodWeights ==
    [integrityVerified |-> 2000, chainOfCustody |-> 1800, sourceAuthenticity |-> 1600,
     temporalConsistency |-> 1400, corroboration |-> 1200, expertValidation |-> 1000,
     technicalCompliance |-> 1000]

\* calculateLikelihood: six products, each of two numbers in Scale units
calculateLikelihood(metrics) ==
    (metrics.integrity * likelihoodWeights.integrityVerified
     + metrics.authenticity * likelihoodWeights.sourceAuthenticity
     + metrics.reliability * likelihoodWeights.corroboration
     + metrics.completeness * likelihoodWeights.technicalCompliance
     + metrics.admissibility * likelihoodWeights.expertValidation
     + metrics.temporalRelevance * likelihoodWeights.temporalConsistency) \div Scale

\* bayesianUpdate: (likelihood * prior) / marginal, as a fraction
bayesianUpdate(prior, likelihood) ==
    [num |-> likelihood * prior,
     den |-> likelihood * prior + (Scale - likelihood) * (Scale - prior)]

calculateConfidence(ev, metrics) ==
    LET corroborated == IF ev.corroborationCount # 0 /\ ev.corroborationCount > 0
                        THEN 1000 * (IF ev.corroborationCount < 3
                                     THEN ev.corroborationCount ELSE 3)
                        ELSE 0
        confidence == 5000 + corroborated
                      + (IF metrics.integrity > 9000 THEN 1000 ELSE 0)
                      + (IF metrics.authenticity > 9000 THEN 1000 ELSE 0)
    IN IF confidence > Scale THEN Scale ELSE confidence

calculateBayesianTrustScore(ev, qualityMetrics) ==
    LET prior == priorProbabilities(ev.evidenceTier)
        likelihood == calculateLikelihood(qualityMetrics)
    IN [score |-> bayesianUpdate(prior, likelihood),
        confidence |-> calculateConfidence(ev, qualityMetrics),
        components |-> [prior |-> prior, likelihood |-> likelihood]]

\* hashVerification?.valid of an argument that may be omitted (<<>>)
HashValid(hashVerification) ==
    "valid" \in DOMAIN hashVerification /\ hashVerification.valid

calculateIntegrityScore(ev, hashVerification) ==
    LET hash == IF HashValid(hashVerification) /\ hashVerification.method = "SHA-256"
                THEN 5000
                ELSE IF HashValid(hashVerification) THEN 3000 ELSE 0
        chain == IF ev.status = "MINTED" /\ Truthy(ev.blockNumber) /\ Truthy(ev.hashValue)
                 THEN 3000 ELSE 0
        metadata == IF ev.fileSize # 0 /\ Truthy(ev.fileType) THEN 2000 ELSE 0
    IN IF hash + chain + metadata > Scale THEN Scale ELSE hash + chain + metadata

calculateAuthenticityScore(ev) ==
    CASE ev.evidenceTier = "SELF_AUTHENTICATING" -> 10000
      [] ev.evidenceTier = "GOVERNMENT" -> 9500
      [] ev.evidenceTier = "FINANCIAL_INSTITUTION" -> 8500
      [] ev.evidenceTier = "INDEPENDENT_THIRD_PARTY" -> 7500
      [] ev.evidenceTier = "BUSINESS_RECORDS" -> 6500
      [] ev.evidenceTier = "FIRST_PARTY_ADVERSE" -> 5500
      [] ev.evidenceTier = "FIRST_PARTY_FRIENDLY" -> 3500
      [] ev.evidenceTier = "UNCORROBORATED_PERSON" -> 2500
      [] OTHER -> 5000

\* calculateQualityMetrics at time t, with calculateReliabilityScore,
\* calculateCompletenessScore, calculateAdmissibilityScore and
\* calculateTemporalRelevance
calculateQualityMetrics(ev, chainOfCustody, hashVerification, t) ==
    LET reliability ==
            4000 + (IF ev.corroborationCount >= 3 THEN 3000
                    ELSE IF ev.corroborationCount >= 2 THEN 2000
                    ELSE IF ev.corroborationCount >= 1 THEN 1000 ELSE 0)
                 - ev.conflictCount * 1500
                 + (IF ev.status = "MINTED" THEN 2000
                    ELSE IF ev.status = "VERIFIED" THEN 1000 ELSE 0)
        presentFields ==
            {f \in {"filename", "fileType", "description", "uploadedBy"} : Truthy(ev[f])}
            \cup (IF ev.uploadedAt # NoDate THEN {"uploadedAt"} ELSE {})
        completeness ==
            Cardinality(presentFields) * 1200
            + (IF ev.fileSize # 0 THEN 1000 ELSE 0)
            + (IF Truthy(ev.caseId) THEN 1000 ELSE 0)
            + (IF ev.verifiedAt # NoDate THEN 1000 ELSE 0)
            + (IF Truthy(ev.hashValue) THEN 1000 ELSE 0)
        admissibility ==
            3000 + (IF Len(chainOfCustody) >= 2 THEN 3000 ELSE 0)
                 + (IF ev.evidenceTier \in {"GOVERNMENT", "FINANCIAL_INSTITUTION",
                                            "SELF_AUTHENTICATING"} THEN 2000 ELSE 0)
                 + (IF Truthy(ev.hashValue) /\ Truthy(ev.fileType) THEN 2000 ELSE 0)
        evidenceAge == t - ev.uploadedAt
    IN [integrity |-> calculateIntegrityScore(ev, hashVerification),
        authenticity |-> calculateAuthenticityScore(ev),
        reliability |-> Clamp(0, reliability, Scale),
        completeness |-> IF completeness > Scale THEN Scale ELSE completeness,
        admissibility |-> IF admissibility > Scale THEN Scale ELSE admissibility,
        temporalRelevance |-> IF evidenceAge <= 30 * 24 THEN 10000
                              ELSE IF evidenceAge <= 90 * 24 THEN 9000
                              ELSE IF evidenceAge <= 365 * 24 THEN 8000
                              ELSE IF evidenceAge <= 1825 * 24 THEN 7000
                              ELSE 6000]

\* mutant of requiresExpertReview: the tier is not looked at
requiresExpertReview_IgnoresTier(ev, metrics, bayesianResult) ==
    \/ bayesianResult.confidence < 7000
    \/ metrics.integrity < 8000
    \/ (ev.conflictCount # 0 /\ ev.conflictCount > 0)

\* requiresExpertReview: the value of a || b || (c && c > 0) || d, which is
\* the first truthy operand, else the last one; (c && c > 0) is the number 0
\* when c is 0, and that falsy operand is never the last
requiresExpertReview(ev, metrics, bayesianResult) ==
    IF bayesianResult.confidence < 7000 THEN TRUE
    ELSE IF metrics.integrity < 8000 THEN TRUE
    ELSE IF ev.conflictCount # 0 /\ ev.conflictCount > 0 THEN TRUE
    ELSE ev.evidenceTier = "UNCORROBORATED_PERSON"

generateScientificTrustScore(ev, chainOfCustody, hashVerification, t) ==
    LET qualityMetrics == calculateQualityMetrics(ev, chainOfCustody, hashVerification, t)
        bayesianResult == calculateBayesianTrustScore(ev, qualityMetrics)
    IN [finalScore |-> bayesianResult.score,
        confidence |-> bayesianResult.confidence,
        components |-> bayesianResult.components,
        qualityMetrics |-> qualityMetrics,
        expertReviewRequired |-> requiresExpertReview(ev, qualityMetrics, bayesianResult)]

\* the hashVerification argument: omitted, or a result of either method
HashVerifications ==
    {<<>>} \cup [valid : BOOLEAN, method : {"SHA-256", "MD5"}]

\* an Evidence with its file columns, complete or missing
ScientificEvidence(tier, status, corroborationCount, conflictCount, complete, uploadedAt) ==
    StoredEvidence(tier, uploadedAt,
        [status |-> status, corroborationCount |-> corroborationCount,
         conflictCount |-> conflictCount,
         blockNumber |-> IF status = "MINTED" THEN "block1" ELSE NULL,
         hashValue |-> IF status = "MINTED" THEN "hash1" ELSE NULL,
         mintedAt |-> IF status = "MINTED" THEN uploadedAt ELSE NoDate,
         verifiedAt |-> IF status \in {"VERIFIED", "MINTED"} THEN uploadedAt ELSE NoDate])
    @@ [filename |-> "exhibit.pdf", description |-> NULL,
        fileType |-> IF complete THEN "application/pdf" ELSE NULL,
        fileSize |-> IF complete THEN 1024 ELSE 0]

ScientificResponse(op, id, input, value) ==
    [op |-> op, id |-> id, status |-> 200, body |-> value, input |-> input]

InitScientific ==
    \E tier \in Tiers, status \in Statuses, complete \in BOOLEAN, n \in 1..2,
       corroborationCount \in 0..MaxCorroboration, conflictCount \in 0..MaxConflicts :
        /\ now = 9600
        /\ evidence = [id \in {"ev1"} |->
               ScientificEvidence(tier, status, corroborationCount, conflictCount,
                                  complete, 0)]
        /\ custody = CustodyEntries("ev1", n, 0)
        /\ response = JsonResponse("none", NULL, 0, <<>>)
        /\ mintedScore = [id \in EvidenceIds |-> <<>>]
        /\ requests = 0
        /\ atomicFacts = <<>>
        /\ contradictions = <<>>
        /\ storage = "PostgreSQLStorage"
        /\ inflight = <<>>
        /\ dispatched = <<>>
        /\ logs = <<>>

\* scientificTrustEngine.generateScientificTrustScore(evidence, chainOfCustody,
\* hashVerification), which logs three entries
GenerateScientificTrustScore ==
    \E id \in DOMAIN evidence, hashVerification \in HashVerifications :
        /\ requests < MaxCalls
        /\ requests' = requests + 1
        /\ response' = ScientificResponse("generateScientificTrustScore", id,
                           hashVerification,
                           generateScientificTrustScore(evidence[id],
                               getChainOfCustody(custody, id), hashVerification, now))
        /\ logs' = createLog(
                       createLog(
                           createLog(logs, now, "INFO",
                                     "Evidence quality metrics calculated", id),
                           now, "INFO", "Bayesian trust score calculated", id),
                       now, "INFO", "Scientific trust score generated", id)
        /\ UNCHANGED <<evidence, custody, now, mintedScore>>
        /\ UNCHANGED <<atomicFacts, contradictions, storage, inflight, dispatched>>

NextScientific == GenerateScientificTrustScore

SpecScientific == InitScientific /\ [][NextScientific]_vars

\* quality metrics handed to calculateBayesianTrustScore by a caller
MetricValues == {0, Scale \div 2, Scale}

QualityMetrics ==
    [integrity : MetricValues, authenticity : MetricValues, reliability : MetricValues,
     completeness : MetricValues, admissibility : MetricValues,
     temporalRelevance : MetricValues]

InitBayesian ==
    \E tier \in Tiers :
        /\ now = 0
        /\ evidence = [id \in {"ev1"} |-> StoredEvidence(tier, 0, <<>>)]
        /\ custody = CustodyEntries("ev1", 1, 0)
        /\ response = JsonResponse("none", NULL, 0, <<>>)
        /\ mintedScore = [id \in EvidenceIds |-> <<>>]
        /\ requests = 0
        /\ atomicFacts = <<>>
        /\ contradictions = <<>>
        /\ storage = "PostgreSQLStorage"
        /\ inflight = <<>>
        /\ dispatched = <<>>
        /\ logs = <<>>

\* bayesianAssessor.calculateBayesianTrustScore(evidence, qualityMetrics)
CalculateBayesianTrustScoreCall ==
    \E id \in DOMAIN evidence, qualityMetrics \in QualityMetrics :
        /\ requests < MaxCalls
        /\ requests' = requests + 1
        /\ response' = ScientificResponse("calculateBayesianTrustScore", id,
                           qualityMetrics,
                           calculateBayesianTrustScore(evidence[id], qualityMetrics))
        /\ logs' = createLog(logs, now, "INFO", "Bayesian trust score calculated", id)
        /\ UNCHANGED <<evidence, custody, now, mintedScore>>
        /\ UNCHANGED <<atomicFacts, contradictions, storage, inflight, dispatched>>

NextBayesian == CalculateBayesianTrustScoreCall

SpecBayesian == InitBayesian /\ [][NextBayesian]_vars

-----------------------------------------------------------------------------
(* Storage calls as sequences of awaits.  A call of the async methods of    *)
(* PostgreSQLStorage gives up control at each await of a query, so the      *)
(* queries of two calls interleave; inflight holds, for each call made, the *)
(* await it is suspended at and the locals it has read so far.  The code    *)
(* between two awaits runs without interruption.                            *)

MaxTasks == 2

\* a call: its method and argument, the await it is at (pc), the row and
\* the clock it read, and what it computed
Call(op, id, pc, row, t, result) ==
    [op |-> op, id |-> id, pc |-> pc, row |-> row, t |-> t, result |-> result]

\* tierMultipliers[evidence.evidenceTier] || 1.0, in hundredths
TierMultiplier(tier) ==
    CASE tier = "SELF_AUTHENTICATING" -> 110
      [] tier = "GOVERNMENT" -> 108
      [] tier = "FINANCIAL_INSTITUTION" -> 105
      [] tier = "INDEPENDENT_THIRD_PARTY" -> 102
      [] tier = "BUSINESS_RECORDS" -> 100
      [] tier = "FIRST_PARTY_ADVERSE" -> 95
      [] tier = "FIRST_PARTY_FRIENDLY" -> 90
      [] tier = "UNCORROBORATED_PERSON" -> 85
      [] OTHER -> 100

\* calculateChittyTrustScore(evidenceId) for the row read at time t and the
\* custody records read after it: the product is rounded half up to two
\* decimals, which is what toFixed(2) makes of the code's doubles for the rows
\* of InitRecompute
calculateChittyTrustScore(ev, cust, evidenceId, t) ==
    IF ~HasEvidence(ev, evidenceId) THEN ZeroScore
    ELSE LET e == ev[evidenceId]
             ageHours == t - e.uploadedAt
             score == ParseFloat(e.originalTrustScore)
                      + (IF ageHours < 1 THEN 500 ELSE IF ageHours > 720 THEN -1000 ELSE 0)
                      + (IF Len(getChainOfCustody(cust, evidenceId)) > 0 THEN 300 ELSE 0)
                      + e.corroborationCount * 200
                      - e.conflictCount * 800
             product == score * TierMultiplier(e.evidenceTier)
             clamped == Clamp(0, product, 100 * Scale)
         IN ToFixed2(((clamped + 5000) \div 10000) * 100)

\* mutant of MintingEligibilityUpdates: the flag is not written
MintingEligibilityUpdates_ScoreOnly(eligibility) ==
    [mintingScore |-> eligibility.score]

\* updateMintingEligibility: const updates
MintingEligibilityUpdates(eligibility) ==
    [mintingEligible |-> eligibility.eligible, mintingScore |-> eligibility.score]

\* updateChittyTrustScore: const updates
ChittyTrustUpdates(chittyScore) == [chittytrustScore |-> chittyScore]

RecomputeOps == {"updateMintingEligibility", "updateChittyTrustScore"}

\* the rows the recomputations run on: uploaded at hour 0 with one custody
\* entry, fresh enough for the first steps of both time scales
InitRecompute ==
    \E tier \in {"SELF_AUTHENTICATING", "FINANCIAL_INSTITUTION", "UNCORROBORATED_PERSON"},
       status \in {"PENDING", "VERIFIED"} :
        /\ now = 0
        /\ evidence = [id \in {"ev1"} |-> StoredEvidence(tier, 0, [status |-> status])]
        /\ custody = CustodyEntries("ev1", 1, 0)
        /\ response = JsonResponse("none", NULL, 0, <<>>)
        /\ mintedScore = [id \in EvidenceIds |-> <<>>]
        /\ requests = 0
        /\ atomicFacts = <<>>
        /\ contradictions = <<>>
        /\ storage = "PostgreSQLStorage"
        /\ inflight = <<>>
        /\ dispatched = <<>>
        /\ logs = <<>>

\* storage.updateMintingEligibility(id) or storage.updateChittyTrustScore(id)
\* is called: all calls of a run are of one method
BeginRecompute ==
    \E op \in RecomputeOps, id \in EvidenceIds :
        /\ Len(inflight) < MaxTasks
        /\ \A k \in DOMAIN inflight : inflight[k].op = op
        /\ inflight' = Append(inflight, Call(op, id, "getEvidence", <<>>, now, <<>>))
        /\ UNCHANGED <<evidence, custody, now, response, mintedScore, requests>>
        /\ UNCHANGED <<atomicFacts, contradictions, storage, dispatched, logs>>

\* calculateMintingEligibility / calculateChittyTrustScore: await getEvidence,
\* then new Date(); a missing row ends the calculation
ReadEvidence ==
    \E k \in DOMAIN inflight :
        LET c == inflight[k]
            found == HasEvidence(evidence, c.id)
            notFound == IF c.op = "updateMintingEligibility"
                        THEN EligibilityNotFound ELSE ZeroScore
        IN
        /\ c.pc = "getEvidence"
        /\ inflight' = [inflight EXCEPT ![k] =
               IF found THEN Call(c.op, c.id, "getChainOfCustody", evidence[c.id], now, <<>>)
               ELSE Call(c.op, c.id, "getEvidence again", <<>>, now, notFound)]
        /\ UNCHANGED <<evidence, custody, now, response, mintedScore, requests>>
        /\ UNCHANGED <<atomicFacts, contradictions, storage, dispatched, logs>>

\* await getChainOfCustody, then the rest of the calculation
ReadCustody ==
    \E k \in DOMAIN inflight :
        LET c == inflight[k]
            read == [id \in {c.id} |-> c.row]
            result == IF c.op = "updateMintingEligibility"
                      THEN calculateMintingEligibility(read, custody, c.id, c.t)
                      ELSE calculateChittyTrustScore(read, custody, c.id, c.t)
        IN
        /\ c.pc = "getChainOfCustody"
        /\ inflight' = [inflight EXCEPT ![k] =
               Call(c.op, c.id, "getEvidence again", c.row, c.t, result)]
        /\ UNCHANGED <<evidence, custody, now, response, mintedScore, requests>>
        /\ UNCHANGED <<atomicFacts, contradictions, storage, dispatched, logs>>

\* const evidence = await this.getEvidence(evidenceId); if (!evidence) return undefined
RereadEvidence ==
    \E k \in DOMAIN inflight :
        LET c == inflight[k] IN
        /\ c.pc = "getEvidence again"
        /\ IF HasEvidence(evidence, c.id)
           THEN /\ inflight' = [inflight EXCEPT ![k].pc = "updateEvidence"]
                /\ UNCHANGED response
           ELSE /\ inflight' = [inflight EXCEPT ![k].pc = "returned"]
                /\ response' = Returned(c.op, c.id, <<>>)
        /\ UNCHANGED <<evidence, custody, now, mintedScore, requests>>
        /\ UNCHANGED <<atomicFacts, contradictions, storage, dispatched, logs>>

\* updateEvidence: await the UPDATE ... SET updates
WriteUpdates ==
    \E k \in DOMAIN inflight :
        LET c == inflight[k]
            updates == IF c.op = "updateMintingEligibility"
                       THEN MintingEligibilityUpdates(c.result)
                       ELSE ChittyTrustUpdates(c.result)
        IN
        /\ c.pc = "updateEvidence"
        /\ evidence' = updateEvidence(evidence, c.id, updates).evidence
        /\ inflight' = [inflight EXCEPT ![k].pc = "written"]
        /\ UNCHANGED <<custody, now, response, mintedScore, requests>>
        /\ UNCHANGED <<atomicFacts, contradictions, storage, dispatched, logs>>

\* updateEvidence: return await this.getEvidence(id)
ReturnUpdated ==
    \E k \in DOMAIN inflight :
        LET c == inflight[k] IN
        /\ c.pc = "written"
        /\ inflight' = [inflight EXCEPT ![k].pc = "returned"]
        /\ response' = Returned(c.op, c.id,
                           IF HasEvidence(evidence, c.id) THEN evidence[c.id] ELSE <<>>)
        /\ UNCHANGED <<evidence, custody, now, mintedScore, requests>>
        /\ UNCHANGED <<atomicFacts, contradictions, storage, dispatched, logs>>

NextRecompute ==
    \/ Tick
    \/ BeginRecompute
    \/ ReadEvidence
    \/ ReadCustody
    \/ RereadEvidence
    \/ WriteUpdates
    \/ ReturnUpdated

SpecRecompute == InitRecompute /\ [][NextRecompute]_vars

\* db.insert(masterEvidence).values(row): the table keeps the row under its
\* id; no constraint on any other column is stated
InsertEvidence(ev, id, row) ==
    [x \in DOMAIN ev \cup {id} |-> IF x = id THEN row ELSE ev[x]]

\* randomUUID() of the k-th call: ids of distinct calls differ
CallUuid(k) == CHOOSE id \in EvidenceIds : IdOrder(id) = k

\* storage.createEvidence(evidenceData) is called.  MemStorage.createEvidence
\* has no await: it reads this.evidence.size and stores the item at once.
BeginCreateEvidence ==
    \E tier \in CreateTiers :
        LET k == Len(inflight) + 1
            evidenceData == [evidenceTier |-> tier, caseId |-> "case1"]
        IN
        /\ k <= MaxTasks
        /\ k <= Cardinality(EvidenceIds)
        /\ IF storage = "MemStorage"
           THEN /\ evidence' = MemCreateEvidence(evidence, CallUuid(k), evidenceData, now)
                /\ inflight' = Append(inflight, Call("createEvidence", CallUuid(k),
                                   "returned", evidence'[CallUuid(k)], now, <<>>))
                /\ response' = Returned("createEvidence", CallUuid(k), evidence'[CallUuid(k)])
           ELSE /\ inflight' = Append(inflight, Call("createEvidence", CallUuid(k),
                                   "select", evidenceData, now, <<>>))
                /\ UNCHANGED <<evidence, response>>
        /\ UNCHANGED <<custody, now, mintedScore, requests>>
        /\ UNCHANGED <<atomicFacts, contradictions, storage, dispatched, logs>>

\* PostgreSQLStorage.createEvidence: await the select of all rows, then build
\* newEvidence from their number
SelectEvidenceCount ==
    \E k \in DOMAIN inflight :
        LET c == inflight[k] IN
        /\ c.pc = "select"
        /\ inflight' = [inflight EXCEPT ![k] =
               Call(c.op, c.id, "insert",
                    NewEvidence(c.row, Cardinality(DOMAIN evidence), now), now, <<>>)]
        /\ UNCHANGED <<evidence, custody, now, response, mintedScore, requests>>
        /\ UNCHANGED <<atomicFacts, contradictions, storage, dispatched, logs>>

\* PostgreSQLStorage.createEvidence: await the insert, return newEvidence
InsertNewEvidence ==
    \E k \in DOMAIN inflight :
        LET c == inflight[k] IN
        /\ c.pc = "insert"
        /\ evidence' = InsertEvidence(evidence, c.id, c.row)
        /\ inflight' = [inflight EXCEPT ![k].pc = "returned"]
        /\ response' = Returned(c.op, c.id, c.row)
        /\ UNCHANGED <<custody, now, mintedScore, requests>>
        /\ UNCHANGED <<atomicFacts, contradictions, storage, dispatched, logs>>

NextCreate ==
    \/ Tick
    \/ BeginCreateEvidence
    \/ SelectEvidenceCount
    \/ InsertNewEvidence

SpecCreate == InitStorage /\ [][NextCreate]_vars

-----------------------------------------------------------------------------
(* The GitHub App worker (src/unnamed/part_006; its router is               *)
(* src/integrations/github/hono.ts).  HMAC-SHA-256 is a fixed table from the *)
(* request bodies of the model to digests, two bytes standing for the        *)
(* thirty-two; header values and bodies are sequences of characters.  The    *)
(* router has no error handler: an exception of the handler rejects fetch,   *)
(* which is the response Thrown.                                             *)

HexChars == <<"0", "1", "2", "3", "4", "5", "6", "7", "8", "9", "a", "b", "c", "d", "e", "f">>

IsHex(c) == \E v \in 1..16 : HexChars[v] = c

HexValue(c) == (CHOOSE v \in 1..16 : HexChars[v] = c) - 1

\* the request bodies: an event of installation 7, an event without an
\* installation, and a body that is no JSON
WebhookBodies == {<<"{", "\"", "i", "n", "s", "t", "a", "l", "l", "a", "t", "i", "o", "n", "\"", ":", "{", "\"", "i", "d", "\"", ":", "7", "}", "}">>, <<"{", "\"", "z", "e", "n", "\"", ":", "\"", "o", "k", "\"", "}">>, <<"p", "i", "n", "g">>}

\* whether JSON.parse(body) returns (it throws a SyntaxError otherwise)
IsJson(body) == Len(body) > 0 /\ body[1] = "{"

\* payload.installation?.id of a parsed body; NoNumber for undefined
InstallationId(body) ==
    IF body = <<"{", "\"", "i", "n", "s", "t", "a", "l", "l", "a", "t", "i", "o", "n", "\"", ":", "{", "\"", "i", "d", "\"", ":", "7", "}", "}">> THEN 7
    ELSE NoNumber

GITHUB_WEBHOOK_SECRET == "secret"

\* hmacSha256(key, msg): new Uint8Array(signature)
hmacSha256(key, msg) ==
    IF msg = <<"{", "\"", "i", "n", "s", "t", "a", "l", "l", "a", "t", "i", "o", "n", "\"", ":", "{", "\"", "i", "d", "\"", ":", "7", "}", "}">> THEN <<1, 171>>
    ELSE IF msg = <<"{", "\"", "z", "e", "n", "\"", ":", "\"", "o", "k", "\"", "}">> THEN <<205, 16>>
    ELSE <<66, 9>>

\* bytes[i] = parseInt(pair, 16) for a pair without sign or white space: the
\* leading hex digits of the pair, NaN (stored as 0) when it has none
ParseHexPair(c1, c2) ==
    IF ~IsHex(c1) THEN 0
    ELSE IF ~IsHex(c2) THEN HexValue(c1)
    ELSE 16 * HexValue(c1) + HexValue(c2)

\* hexToBytes(hex) for a hex of even length
hexToBytes(hex) ==
    [i \in 1..(Len(hex) \div 2) |-> ParseHexPair(hex[2 * i - 1], hex[2 * i])]

\* timingSafeEqual(a, b): equal lengths and no differing byte
timingSafeEqual(a, b) ==
    Len(a) = Len(b) /\ \A i \in 1..Len(a) : a[i] = b[i]

\* verifyHmac256(body, secret, sigHeader): what it returns, or that it threw
\* (hexToBytes throws an Error on a hex of odd length)
verifyHmac256(body, secret, sigHeader) ==
    IF ~StartsWith(sigHeader, <<"s", "h", "a", "2", "5", "6", "=">>)
    THEN [threw |-> FALSE, value |-> FALSE]
    ELSE LET hex == SubSeq(sigHeader, 8, Len(sigHeader))
         IN IF Len(hex) % 2 # 0 THEN [threw |-> TRUE, value |-> FALSE]
            ELSE [threw |-> FALSE,
                  value |-> timingSafeEqual(hexToBytes(hex), hmacSha256(secret, body))]

\* the lower-case hex of a digest, as GitHub writes it
ToHex(bytes) ==
    Flatten([i \in 1..Len(bytes) |->
                <<HexChars[(bytes[i] \div 16) + 1], HexChars[(bytes[i] % 16) + 1]>>])

\* the X-Hub-Signature-256 of a sender that knows the secret
Signature(body) == <<"s", "h", "a", "2", "5", "6", "=">> \o ToHex(hmacSha256(GITHUB_WEBHOOK_SECRET, body))

\* header values a request may carry: the signature, the signature of
\* another body, the hex without its prefix, the signature cut by one and by
\* two characters, no header (''), and a value that is no hex
SignatureHeaders(body) ==
    {Signature(body),
     Signature(<<"o", "t", "h", "e", "r">>),
     SubSeq(Signature(body), 8, Len(Signature(body))),
     SubSeq(Signature(body), 1, Len(Signature(body)) - 1),
     SubSeq(Signature(body), 1, Len(Signature(body)) - 2),
     <<>>,
     <<"s", "h", "a", "2", "5", "6", "=", "1", "z", "a", "b">>}

DeliveryIds == {"delivery1", "delivery2"}

WebhookResponse(deliveryId, statusCode, text, body, sig) ==
    [op |-> "POST /integrations/github/webhook", id |-> deliveryId,
     status |-> statusCode, body |-> text, payload |-> body, signature |-> sig]

\* dispatchToMCP(input): the request sent to the dispatcher, and its hour
Dispatch(installationId, event, deliveryId, body, t) ==
    [tenantId |-> <<"tenant", installationId>>, event |-> event,
     deliveryId |-> deliveryId, payload |-> body, at |-> t]

\* POST /integrations/github/webhook
WebhookRequest ==
    \E body \in WebhookBodies, deliveryId \in DeliveryIds :
        \E sig \in SignatureHeaders(body) :
            LET valid == verifyHmac256(body, GITHUB_WEBHOOK_SECRET, sig)
                installationId == InstallationId(body)
            IN
            /\ requests < MaxCalls
            /\ requests' = requests + 1
            /\ IF valid.threw
               THEN /\ response' = WebhookResponse(deliveryId, 500, [threw |-> "Error"], body, sig)
                    /\ UNCHANGED dispatched
               ELSE IF ~valid.value
               THEN /\ response' = WebhookResponse(deliveryId, 401, "sig mismatch", body, sig)
                    /\ UNCHANGED dispatched
               ELSE IF ~IsJson(body)
               THEN /\ response' = WebhookResponse(deliveryId, 500, [threw |-> "SyntaxError"], body, sig)
                    /\ UNCHANGED dispatched
               ELSE IF installationId = NoNumber \/ installationId = 0
               THEN /\ response' = WebhookResponse(deliveryId, 202, "no installation", body, sig)
                    /\ UNCHANGED dispatched
               ELSE /\ dispatched' = Append(dispatched,
                           Dispatch(installationId, "push", deliveryId, body, now))
                    /\ response' = WebhookResponse(deliveryId, 200, "ok", body, sig)
            /\ UNCHANGED <<evidence, custody, now, mintedScore>>
            /\ UNCHANGED <<atomicFacts, contradictions, storage, inflight, logs>>

\* the worker starts with nothing dispatched
InitWebhook == InitExtract

NextWebhook ==
    \/ Tick
    \/ WebhookRequest

SpecWebhook == InitWebhook /\ [][NextWebhook]_vars

-----------------------------------------------------------------------------
(* The logger on its own: log calls, getLogs and clearLogs on a buffer that *)
(* earlier calls have filled up to around maxLogs                           *)

\* how many entries earlier log calls have left in the buffer
SeedSizes == {0, maxLogs - 1, maxLogs}

\* the levels of the log calls and of the level filter
CallLevels == {"ERROR", "INFO"}

\* the buffer after n log calls, every third one an error
SeedLogs(n) ==
    [i \in 1..n |-> LogEntry(i, 0, IF i % 3 = 0 THEN "ERROR" ELSE "INFO", "seed", NULL)]

\* the limit argument of getLogs; NoNumber when omitted
Limits == {NoNumber, 0, 2}

LoggerResponse(op, limit, level, value) ==
    [op |-> op, id |-> NULL, status |-> 200, limit |-> limit, level |-> level,
     body |-> value]

InitLogger ==
    /\ evidence = <<>>
    /\ custody = <<>>
    /\ now = 0
    /\ response = JsonResponse("none", NULL, 0, <<>>)
    /\ mintedScore = [id \in EvidenceIds |-> <<>>]
    /\ requests = 0
    /\ atomicFacts = <<>>
    /\ contradictions = <<>>
    /\ storage = "PostgreSQLStorage"
    /\ inflight = <<>>
    /\ dispatched = <<>>
    /\ \E n \in SeedSizes : logs = SeedLogs(n)

\* logger.error(message) / logger.info(message)
LogCall ==
    \E level \in CallLevels :
        /\ requests < MaxCalls
        /\ requests' = requests + 1
        /\ logs' = createLog(logs, now, level, "message", NULL)
        /\ response' = LoggerResponse("log", NoNumber, level, <<logs'[Len(logs')]>>)
        /\ UNCHANGED <<evidence, custody, now, mintedScore, atomicFacts, contradictions>>
        /\ UNCHANGED <<storage, inflight, dispatched>>

\* logger.getLogs(limit, level)
GetLogsCall ==
    \E limit \in Limits, level \in {NULL, "ERROR"} :
        /\ requests < MaxCalls
        /\ requests' = requests + 1
        /\ response' = LoggerResponse("getLogs", limit, level, getLogs(logs, limit, level))
        /\ UNCHANGED <<evidence, custody, now, mintedScore, atomicFacts, contradictions>>
        /\ UNCHANGED <<storage, inflight, dispatched, logs>>

\* logger.clearLogs()
ClearLogsCall ==
    /\ requests < MaxCalls
    /\ requests' = requests + 1
    /\ logs' = <<>>
    /\ response' = LoggerResponse("clearLogs", NoNumber, NULL, <<>>)
    /\ UNCHANGED <<evidence, custody, now, mintedScore, atomicFacts, contradictions>>
    /\ UNCHANGED <<storage, inflight, dispatched>>

NextLogger ==
    \/ LogCall
    \/ GetLogsCall
    \/ ClearLogsCall

SpecLogger == InitLogger /\ [][NextLogger]_vars

-----------------------------------------------------------------------------
(* Properties *)

Minted(e) == e.status = "MINTED"

\* the current trust score of an existing item, as a number (Scale units)
CurrentTrust(ev, id, t) == ParseFloat(calculateCurrentTrustScore(ev, id, t))

\* the degradation rate calculateCurrentTrustScore reads, as a number
EffectiveRate(e) ==
    ParseFloat(IF e.trustDegradationRate = <<>> THEN DefaultDegradationRate
               ELSE e.trustDegradationRate)

EligibilityOp == "GET /api/evidence/:id/minting-eligibility"

\* C1: once mintEvidence has succeeded for an item, in every later state its
\* trustDegradationRate is 0 and calculateCurrentTrustScore returns the
\* trustScore that minting stored.
C1_MintedScoreFrozen ==
    \A id \in DOMAIN evidence :
        mintedScore[id] # <<>> =>
            /\ ParseFloat(evidence[id].trustDegradationRate) = 0
            /\ calculateCurrentTrustScore(evidence, id, now) = mintedScore[id]

\* C2: an item's status becomes MINTED only in a step taken from a state in
\* which calculateMintingEligibility finds the item eligible.
C2_MintedOnlyIfEligible ==
    [][\A id \in EvidenceIds :
          (/\ id \in DOMAIN evidence'
           /\ Minted(evidence'[id])
           /\ (id \in DOMAIN evidence => ~Minted(evidence[id])))
          => calculateMintingEligibility(evidence, custody, id, now).eligible]_vars

\* C3: for an existing item the returned score is the sum of the six returned
\* axis scores divided by 100, written with two decimals, and eligible holds
\* exactly when that score is at least 0.70.
C3_CompositeIsSum ==
    (response.op = EligibilityOp /\ HasEvidence(evidence, response.id)) =>
        LET r == response.body
            six == r.sixDScores
            sum == six.source + six.time + six.chain + six.network
                   + six.outcomes + six.justice
        IN /\ DOMAIN six = {"source", "time", "chain", "network", "outcomes", "justice"}
           /\ Len(r.score) = 4 /\ r.score[2] = "."
           /\ ParseFloat(r.score) * 100 = sum * Scale
           /\ r.eligible <=> (ParseFloat(r.score) * 100 >= 70 * Scale)

C3_Witness ==
    /\ response.op = EligibilityOp
    /\ HasEvidence(evidence, response.id)
    /\ response.body.score = <<"0", ".", "7", "0">>
    /\ response.body.eligible

\* C4: each axis equals the value of the table (Source by tier, Time by age,
\* Chain by custody entries, Network by corroborationCount, Outcomes by status,
\* Justice by conflictCount) and stays within its cap; GOVERNMENT, 2 hours,
\* 3 entries, 3 corroborations, VERIFIED, 0 conflicts scores 0.98 and is
\* eligible; UNCORROBORATED_PERSON, 400 days, 0 entries, 0 corroborations,
\* PENDING, 2 conflicts scores 0.00 and is not eligible.
C4_AxesFollowTable ==
    (response.op = EligibilityOp /\ HasEvidence(evidence, response.id)) =>
        LET e == evidence[response.id]
            r == response.body
            six == r.sixDScores
            age == now - e.uploadedAt
            entries == Cardinality({i \in 1..Len(custody) :
                                       custody[i].evidenceId = response.id})
            first == /\ e.evidenceTier = "GOVERNMENT" /\ age = 2 /\ entries = 3
                     /\ e.corroborationCount = 3 /\ e.status = "VERIFIED"
                     /\ e.conflictCount = 0
            second == /\ e.evidenceTier = "UNCORROBORATED_PERSON" /\ age = 400 * 24
                      /\ entries = 0 /\ e.corroborationCount = 0
                      /\ e.status = "PENDING" /\ e.conflictCount = 2
        IN /\ six.source =
                  (CASE e.evidenceTier = "SELF_AUTHENTICATING" -> 20
                     [] e.evidenceTier = "GOVERNMENT" -> 18
                     [] e.evidenceTier = "FINANCIAL_INSTITUTION" -> 16
                     [] e.evidenceTier = "INDEPENDENT_THIRD_PARTY" -> 12
                     [] e.evidenceTier = "BUSINESS_RECORDS" -> 8
                     [] e.evidenceTier = "FIRST_PARTY_ADVERSE" -> 4
                     [] e.evidenceTier = "FIRST_PARTY_FRIENDLY" -> 2
                     [] e.evidenceTier = "UNCORROBORATED_PERSON" -> 0)
           /\ six.time = (IF age < 24 THEN 15 ELSE IF age < 7 * 24 THEN 12
                          ELSE IF age < 30 * 24 THEN 8 ELSE 0)
           /\ six.chain = (IF entries >= 3 THEN 15 ELSE IF entries >= 1 THEN 10 ELSE 0)
           /\ six.network = (IF e.corroborationCount >= 3 THEN 20
                             ELSE IF e.corroborationCount = 2 THEN 15
                             ELSE IF e.corroborationCount = 1 THEN 8 ELSE 0)
           /\ six.outcomes = (IF e.status \in {"VERIFIED", "MINTED"} THEN 15
                              ELSE IF e.status = "REQUIRES_CORROBORATION" THEN 5 ELSE 0)
           /\ six.justice = (IF e.conflictCount = 0 THEN 15
                             ELSE IF e.conflictCount = 1 THEN 8 ELSE 0)
           /\ six.source <= 20 /\ six.time <= 15 /\ six.chain <= 15
           /\ six.network <= 20 /\ six.outcomes <= 15 /\ six.justice <= 15
           /\ first => (r.score = <<"0", ".", "9", "8">> /\ r.eligible)
           /\ second => (r.score = <<"0", ".", "0", "0">> /\ ~r.eligible)

C4_Witness ==
    /\ response.op = EligibilityOp
    /\ HasEvidence(evidence, response.id)
    /\ evidence[response.id].evidenceTier = "GOVERNMENT"
    /\ now - evidence[response.id].uploadedAt = 2
    /\ Len(getChainOfCustody(custody, response.id)) = 3
    /\ evidence[response.id].corroborationCount = 3
    /\ evidence[response.id].status = "VERIFIED"
    /\ evidence[response.id].conflictCount = 0
    /\ response.body.score = <<"0", ".", "9", "8">>

\* C5: the eligibility request for an id with no evidence row is answered (no
\* exception) with eligible = false, score "0.00" and a not-found reason, and
\* the step leaves the evidence table and the custody log unchanged.
C5_NotFoundIsAdvisory ==
    [][(response'.op = EligibilityOp /\ ~HasEvidence(evidence, response'.id)) =>
          /\ response'.status = 200
          /\ response'.body.eligible = FALSE
          /\ response'.body.score = <<"0", ".", "0", "0">>
          /\ \E i \in DOMAIN response'.body.reasons :
                 response'.body.reasons[i].text = "Evidence not found"
          /\ evidence' = evidence
          /\ custody' = custody]_vars

C5_Witness ==
    /\ response.op = EligibilityOp
    /\ ~HasEvidence(evidence, response.id)
    /\ response.status = 200
    /\ response.body.eligible = FALSE

\* C6: for a non-minted item queried at or after lastTrustUpdate, the current
\* trust score is max(0, originalTrustScore - rate * hours since
\* lastTrustUpdate) written with two decimals (so within half a hundredth of
\* it), never negative and never above originalTrustScore.
C6_LinearDecayFloored ==
    \A id \in DOMAIN evidence :
        LET e == evidence[id]
            hours == now - e.lastTrustUpdate
            original == ParseFloat(e.originalTrustScore)
            decayed == original - EffectiveRate(e) * hours
            exact == IF decayed < 0 THEN 0 ELSE decayed
            s == calculateCurrentTrustScore(evidence, id, now)
            returned == ParseFloat(s)
        IN (~Minted(e) /\ hours >= 0) =>
               /\ Len(s) = 4 /\ s[2] = "."
               /\ returned - exact <= 50 /\ exact - returned <= 50
               /\ (exact % 100 = 0 => returned = exact)
               /\ returned >= 0
               /\ returned <= original

C6_Witness ==
    \E id \in DOMAIN evidence :
        LET e == evidence[id] IN
        /\ response.op = "GET /api/evidence/:id/trust"
        /\ response.id = id
        /\ response.status = 200
        /\ response.body.currentTrustScore = ZeroScore
        /\ ~Minted(e)
        /\ now > e.lastTrustUpdate
        /\ ParseFloat(e.originalTrustScore)
               - EffectiveRate(e) * (now - e.lastTrustUpdate) < 0
        /\ calculateCurrentTrustScore(evidence, id, now) = ZeroScore

\* C7 (as stated): for an item that stays non-minted, no step, whatever the
\* operation, raises its current trust score.
C7_NeverRises ==
    [][\A id \in DOMAIN evidence \cap DOMAIN evidence' :
          (~Minted(evidence[id]) /\ ~Minted(evidence'[id])) =>
              CurrentTrust(evidence', id, now') <= CurrentTrust(evidence, id, now)]_vars

\* C7 (amended): for an item that stays non-minted, no step that leaves its
\* lastTrustUpdate, trustDegradationRate and originalTrustScore as they were
\* raises its current trust score.
C7_NeverRisesBetweenUpdates ==
    [][\A id \in DOMAIN evidence \cap DOMAIN evidence' :
          (/\ ~Minted(evidence[id]) /\ ~Minted(evidence'[id])
           /\ evidence'[id].lastTrustUpdate = evidence[id].lastTrustUpdate
           /\ evidence'[id].trustDegradationRate = evidence[id].trustDegradationRate
           /\ evidence'[id].originalTrustScore = evidence[id].originalTrustScore) =>
              CurrentTrust(evidence', id, now') <= CurrentTrust(evidence, id, now)]_vars

C7_Witness ==
    \E id \in DOMAIN evidence :
        /\ ~Minted(evidence[id])
        /\ now > evidence[id].lastTrustUpdate
        /\ CurrentTrust(evidence, id, now) < ParseFloat(evidence[id].originalTrustScore)

\* C8: every non-minted item has trustScore <= originalTrustScore and every
\* minted item has trustDegradationRate = 0.
C8_TrustInvariant ==
    \A id \in DOMAIN evidence :
        LET e == evidence[id] IN
        /\ ~Minted(e) => ParseFloat(e.trustScore) <= ParseFloat(e.originalTrustScore)
        /\ Minted(e) => ParseFloat(e.trustDegradationRate) = 0

\* C9: every item with a mintedAt has a verifiedAt, no later than mintedAt.
C9_MintedImpliesVerified ==
    \A id \in DOMAIN evidence :
        evidence[id].mintedAt # NoDate =>
            /\ evidence[id].verifiedAt # NoDate
            /\ evidence[id].verifiedAt <= evidence[id].mintedAt

\* C10: no step changes the originalTrustScore of an existing item.
C10_OriginalImmutable ==
    [][\A id \in DOMAIN evidence :
          /\ id \in DOMAIN evidence'
          /\ evidence'[id].originalTrustScore = evidence[id].originalTrustScore]_vars


\* the reliability order of the tiers, most reliable first
TierOrder ==
    <<"SELF_AUTHENTICATING", "GOVERNMENT", "FINANCIAL_INSTITUTION",
      "INDEPENDENT_THIRD_PARTY", "BUSINESS_RECORDS", "FIRST_PARTY_ADVERSE",
      "FIRST_PARTY_FRIENDLY", "UNCORROBORATED_PERSON">>

\* C11: the Evidence returned by createEvidence, in PostgreSQLStorage and in
\* MemStorage, has originalTrustScore = trustScore = the tier's base score,
\* status PENDING and null blockNumber and hashValue; and the base score does
\* not increase along TierOrder in either implementation.
C11_CreatedAtBaseScore ==
    /\ (response.op = "createEvidence" /\ response.status = 200) =>
           LET e == response.body
               base == IF storage = "MemStorage"
                       THEN MemCalculateTrustScore(e.evidenceTier)
                       ELSE calculateTrustScore(e.evidenceTier)
           IN /\ "originalTrustScore" \in DOMAIN e
              /\ e.originalTrustScore = base
              /\ e.trustScore = base
              /\ e.status = "PENDING"
              /\ e.blockNumber = NULL
              /\ e.hashValue = NULL
    /\ \A i \in 1..Len(TierOrder), j \in 1..Len(TierOrder) :
           i < j =>
               /\ ParseFloat(calculateTrustScore(TierOrder[i]))
                      >= ParseFloat(calculateTrustScore(TierOrder[j]))
               /\ ParseFloat(MemCalculateTrustScore(TierOrder[i]))
                      >= ParseFloat(MemCalculateTrustScore(TierOrder[j]))

\* C12: a tier-indexed lookup for a tier outside the eight defined tiers (the
\* base score read by createEvidence, the Source axis read by
\* calculateMintingEligibility) ends in a ConfigurationError and never answers
\* with a default value.
C12_UnknownTierFails ==
    [][(\/ /\ response'.op = "createEvidence"
           /\ response'.status = 500
        \/ /\ response'.op = "calculateMintingEligibility"
           /\ HasEvidence(evidence', response'.id)
           /\ evidence'[response'.id].evidenceTier \notin Tiers)
       => response'.body = [threw |-> "ConfigurationError"]]_vars

\* C13: a mint request whose body lacks blockNumber or hashValue is answered
\* with a ValidationError (400), and the step changes no evidence row (status,
\* trustScore, trustDegradationRate, blockNumber, hashValue, mintedAt) and
\* appends no custody entry.
C13_MalformedMintNeverAttempted ==
    [][\A id \in EvidenceIds, body \in MintBodies :
          (/\ MintEvidenceRequest(id, body)
           /\ ("blockNumber" \notin DOMAIN body \/ "hashValue" \notin DOMAIN body))
          => /\ response'.status = 400
             /\ response'.body.code = "VALIDATION_ERROR"
             /\ evidence' = evidence
             /\ custody' = custody]_vars

C13_Witness ==
    /\ response.op = "POST /api/evidence/:id/mint"
    /\ response.status = 400
    /\ response.body.error = "Block number and hash value are required"
    /\ HasEvidence(evidence, response.id)
    /\ calculateMintingEligibility(evidence, custody, response.id, now).eligible
    /\ evidence[response.id].status # "MINTED"

\* C14: a verify request, or a mint request with blockNumber and hashValue,
\* for an id that has no evidence row is answered with a NotFoundError (404),
\* and the step creates no evidence row and no custody entry.
C14_MissingEvidenceNotFound ==
    [][\A id \in EvidenceIds :
          ~HasEvidence(evidence, id) =>
              /\ VerifyEvidenceRequest(id) =>
                     /\ response'.status = 404
                     /\ response'.body.code = "NOT_FOUND"
                     /\ evidence' = evidence
                     /\ custody' = custody
              /\ \A body \in MintBodies :
                     (/\ MintEvidenceRequest(id, body)
                      /\ "blockNumber" \in DOMAIN body
                      /\ "hashValue" \in DOMAIN body)
                     => /\ response'.status = 404
                        /\ response'.body.code = "NOT_FOUND"
                        /\ evidence' = evidence
                        /\ custody' = custody]_vars

\* the number of positions of seq that hold e
Occurrences(seq, e) == Cardinality({i \in 1..Len(seq) : seq[i] = e})

\* C15: no step removes or changes an entry of the custody log (the log
\* after the step starts with the log before it), and getChainOfCustody
\* returns exactly the entries of the evidence item asked for, each as often
\* as the log holds it, in non-decreasing timestamp order.
C15_CustodyAppendOnly ==
    [][/\ Len(custody') >= Len(custody)
       /\ SubSeq(custody', 1, Len(custody)) = custody
       /\ response'.op = "getChainOfCustody" =>
              LET r == response'.body
                  own == SelectSeq(custody', LAMBDA e : e.evidenceId = response'.id)
              IN /\ Len(r) = Len(own)
                 /\ \A i \in 1..Len(own) : Occurrences(r, own[i]) = Occurrences(own, own[i])
                 /\ \A i \in 1..Len(r), j \in 1..Len(r) :
                        i < j => r[i].timestamp <= r[j].timestamp]_vars

C15_Witness ==
    /\ response.op = "getChainOfCustody"
    /\ Len(response.body) >= 2
    /\ response.body # SelectSeq(custody, LAMBDA e : e.evidenceId = response.id)
    /\ Len(response.body) = Len(SelectSeq(custody, LAMBDA e : e.evidenceId = response.id))

\* the active contradictions that name id as evidenceId1 or evidenceId2
ActiveConflicts(id) ==
    {i \in 1..Len(getActiveContradictions(contradictions)) :
        \/ getActiveContradictions(contradictions)[i].evidenceId1 = id
        \/ getActiveContradictions(contradictions)[i].evidenceId2 = id}

\* C16: every evidence item has a conflictCount, equal to the number of
\* active contradictions that reference the item.
C16_ConflictCountMatches ==
    \A id \in DOMAIN evidence :
        /\ "conflictCount" \in DOMAIN evidence[id]
        /\ evidence[id].conflictCount = Cardinality(ActiveConflicts(id))

\* the facts of the first and of the second argument of the detection that
\* produced the response
Facts1 == getFactsByEvidence(atomicFacts, response.id)

Facts2 == getFactsByEvidence(atomicFacts, response.id2)

Detected == response.op = "detectContradictions"

\* C17: every result detectContradictions returns has confidence >= 0.70,
\* and every result its detectors produce with confidence >= 0.70 is
\* returned, as many times as it was produced.
C17_ConfidenceThreshold ==
    Detected =>
        LET produced == DetectorResults(evidence, response.id, response.id2,
                                        Facts1, Facts2)
        IN /\ \A i \in 1..Len(response.body) : response.body[i].confidence >= 7000
           /\ \A k \in 1..Len(produced) :
                  produced[k].confidence >= 7000 =>
                      Occurrences(response.body, produced[k])
                          = Occurrences(produced, produced[k])

\* a detection that returned three results, one of them at confidence 0.75
C17_Witness ==
    /\ Detected
    /\ Len(response.body) >= 3
    /\ \E i \in 1..Len(response.body) : response.body[i].confidence = 7500

SwapIds(c) ==
    [c EXCEPT !.evidence1Id = c.evidence2Id, !.evidence2Id = c.evidence1Id]

TenDaysApart(fact1, fact2) ==
    /\ fact1.factType = "DATE"
    /\ fact2.factType = "DATE"
    /\ Includes(ToLowerCase(fact1.content), <<"p", "a", "y", "m", "e", "n", "t">>)
    /\ Includes(ToLowerCase(fact2.content), <<"p", "a", "y", "m", "e", "n", "t">>)
    /\ parseDate(fact1.content) # NoDate
    /\ parseDate(fact2.content) # NoDate
    /\ Abs(parseDate(fact1.content) - parseDate(fact2.content)) = 10 * 24

HasTenDaysApart ==
    \E i \in 1..Len(Facts1), j \in 1..Len(Facts2) : TenDaysApart(Facts1[i], Facts2[j])

Returns(type, severity, confidence) ==
    \E k \in 1..Len(response.body) :
        response.body[k] = ContradictionResult(type, severity, confidence,
                                               response.id, response.id2)

\* C19 as stated: two DATE facts that both mention "payment", 10 days apart,
\* yield a TEMPORAL contradiction of severity HIGH and confidence 0.9.
C19_TenDaysIsHigh ==
    Detected /\ HasTenDaysApart => Returns("TEMPORAL", "high", 9000)

\* C19 amended: two DATE facts that both mention "payment", 10 days apart,
\* yield a TEMPORAL contradiction of severity MEDIUM and confidence 0.9; and
\* when the two items hold no other DATE facts it is the only TEMPORAL result.
C19_TenDaysIsMedium ==
    Detected /\ HasTenDaysApart =>
        /\ Returns("TEMPORAL", "medium", 9000)
        /\ (\A i \in 1..Len(Facts1), j \in 1..Len(Facts2) :
                Facts1[i].factType = "DATE" /\ Facts2[j].factType = "DATE"
                    => TenDaysApart(Facts1[i], Facts2[j]))
               => \A k \in 1..Len(response.body) :
                      response.body[k].type = "TEMPORAL"
                          => response.body[k].severity = "medium"

C19_Witness ==
    /\ Detected
    /\ HasTenDaysApart
    /\ Returns("TEMPORAL", "medium", 9000)

\* an AMOUNT fact that mentions "invoice amount", of the given amount in cents
InvoiceAmount(fact, cents) ==
    /\ fact.factType = "AMOUNT"
    /\ Includes(ToLowerCase(fact.content), <<"i", "n", "v", "o", "i", "c", "e", " ", "a", "m", "o", "u", "n", "t">>)
    /\ extractNumber(fact.content) = cents

AmountFacts(facts) == FactsOfType(facts, {"AMOUNT", "TRANSACTION"})

\* the difference of two amounts is more than percent per cent of the
\* smaller: the reading under which $1,000 and $1,600 are 60% apart
DifferByMoreThan(amount1, amount2, percent) ==
    LET smaller == IF amount1 <= amount2 THEN amount1 ELSE amount2
    IN Abs(amount1 - amount2) * 100 > percent * smaller

\* C20: AMOUNT facts "invoice amount" of $1,000 and $1,600 yield a NUMERICAL
\* contradiction of severity HIGH; and between one amount fact of each item,
\* a NUMERICAL contradiction is returned only when the amounts differ by more
\* than 5%, HIGH when they differ by more than 50% and MEDIUM otherwise.
C20_InvoiceAmounts ==
    Detected =>
        /\ (\E i \in 1..Len(Facts1), j \in 1..Len(Facts2) :
                \/ InvoiceAmount(Facts1[i], 1000 * Cents) /\ InvoiceAmount(Facts2[j], 1600 * Cents)
                \/ InvoiceAmount(Facts1[i], 1600 * Cents) /\ InvoiceAmount(Facts2[j], 1000 * Cents))
               => Returns("NUMERICAL", "high", 9000)
        /\ Len(AmountFacts(Facts1)) = 1 /\ Len(AmountFacts(Facts2)) = 1 =>
               LET amount1 == extractNumber(AmountFacts(Facts1)[1].content)
                   amount2 == extractNumber(AmountFacts(Facts2)[1].content)
               IN \A k \in 1..Len(response.body) :
                      response.body[k].type = "NUMERICAL" =>
                          /\ DifferByMoreThan(amount1, amount2, 5)
                          /\ response.body[k].severity =
                                 IF DifferByMoreThan(amount1, amount2, 50)
                                 THEN "high" ELSE "medium"

\* C21: extractFacts raises an error when the evidence reference has no id,
\* and for a reference with an id it returns a (possibly empty) fact list
\* whatever the text is, the empty text included.
C21_RaisesOnMissingId ==
    response.op = "extractFacts" =>
        IF response.id = NULL THEN response.status = 500
        ELSE response.status = 200 /\ Len(response.body) >= 0

\* C22: generateScientificTrustScore returns expertReviewRequired = true
\* exactly when the returned confidence is below 0.7, or the integrity metric
\* is below 0.8, or the item's conflictCount is above 0, or its tier is
\* UNCORROBORATED_PERSON; otherwise it returns the boolean false.
C22_ExpertReviewRule ==
    response.op = "generateScientificTrustScore" =>
        /\ response.body.expertReviewRequired \in BOOLEAN
        /\ response.body.expertReviewRequired
             = (\/ response.body.confidence < 7 * (Scale \div 10)
                \/ response.body.qualityMetrics.integrity < 8 * (Scale \div 10)
                \/ evidence[response.id].conflictCount > 0
                \/ evidence[response.id].evidenceTier = "UNCORROBORATED_PERSON")

\* a score that needs no expert review: all four conditions are false
C22_Witness ==
    /\ response.op = "generateScientificTrustScore"
    /\ response.body.expertReviewRequired = FALSE
    /\ evidence[response.id].corroborationCount > 0

\* C23: the likelihood is 1.0 when all six quality metrics are 1.0 (the
\* applied weights sum to 1.0), and it lies in [0, 1] for metrics in [0, 1].
C23_LikelihoodWeightsSumToOne ==
    response.op = "calculateBayesianTrustScore" =>
        /\ response.body.components.likelihood \in 0..Scale
        /\ (\A m \in DOMAIN response.input : response.input[m] = Scale)
               => response.body.components.likelihood = Scale

\* the columns a recomputation caches
CachedColumns == {"mintingEligible", "mintingScore", "chittytrustScore"}

\* the calls that have written their updates
Written(op, id) ==
    {k \in DOMAIN inflight :
        /\ inflight[k].op = op
        /\ inflight[k].id = id
        /\ inflight[k].pc \in {"written", "returned"}
        /\ inflight[k].row # <<>>}

\* C24: concurrent runs of updateMintingEligibility (or of
\* updateChittyTrustScore) for one evidence id, interleaved in any way, leave
\* mintingEligible and mintingScore (resp. chittytrustScore) equal to the
\* result of one of the computations, with mintingEligible = (mintingScore >=
\* 0.70), and change no other column of the item.
C24_LastWriteWins ==
    \A id \in DOMAIN evidence :
        /\ Written("updateMintingEligibility", id) # {} =>
               /\ \E k \in Written("updateMintingEligibility", id) :
                      /\ evidence[id].mintingEligible = inflight[k].result.eligible
                      /\ evidence[id].mintingScore = inflight[k].result.score
               /\ evidence[id].mintingEligible
                      = (ParseFloat(evidence[id].mintingScore) >= 7 * (Scale \div 10))
        /\ Written("updateChittyTrustScore", id) # {} =>
               \E k \in Written("updateChittyTrustScore", id) :
                   evidence[id].chittytrustScore = inflight[k].result
        /\ \A k \in DOMAIN inflight :
               (inflight[k].id = id /\ inflight[k].row # <<>>) =>
                   \A f \in DOMAIN evidence[id] \ CachedColumns :
                       evidence[id][f] = inflight[k].row[f]

\* two runs of updateMintingEligibility computed different results, both
\* wrote, and the one computed first (now no longer eligible) was kept
C24_Witness ==
    /\ Len(inflight) = 2
    /\ \A k \in 1..2 : inflight[k].op = "updateMintingEligibility"
                       /\ inflight[k].id = "ev1" /\ inflight[k].pc = "returned"
                       /\ inflight[k].row # <<>>
    /\ inflight[1].result.eligible # inflight[2].result.eligible
    /\ \E k \in 1..2 : /\ inflight[k].t = 0
                       /\ evidence["ev1"].mintingScore = inflight[k].result.score
                       /\ evidence["ev1"].mintingEligible

\* two calls of updateChittyTrustScore wrote different scores
C24_WitnessChittyTrust ==
    /\ Len(inflight) = 2
    /\ \A k \in 1..2 : inflight[k].op = "updateChittyTrustScore"
                       /\ inflight[k].pc = "returned" /\ inflight[k].row # <<>>
    /\ inflight[1].result # inflight[2].result

\* C28: after any sequence and interleaving of createEvidence calls, no two
\* evidence items in the store share an artifactId.
C28_ArtifactIdsUnique ==
    \A id1 \in DOMAIN evidence, id2 \in DOMAIN evidence :
        id1 # id2 => evidence[id1].artifactId # evidence[id2].artifactId

\* C25: a webhook payload is forwarded to the MCP dispatcher only after its
\* X-Hub-Signature-256 has been verified against the body and the secret;
\* every request whose header is not that signature (missing prefix, wrong
\* digest, wrong or odd hex length) is answered 401 and is not dispatched.
C25_UnverifiedIsRejected ==
    [][(/\ requests' = requests + 1
        /\ response'.op = "POST /integrations/github/webhook"
        /\ response'.signature # Signature(response'.payload))
           => (response'.status = 401 /\ dispatched' = dispatched)]_vars

\* C26: two validly signed webhook requests with the same X-GitHub-Delivery
\* id within one hour are dispatched at most once.
C26_DeliveriesDeduplicated ==
    \A i \in DOMAIN dispatched, j \in DOMAIN dispatched :
        (i < j /\ dispatched[i].deliveryId = dispatched[j].deliveryId)
            => dispatched[j].at - dispatched[i].at > 1


\* C27: MINTED is absorbing: no step changes the status, blockNumber,
\* hashValue or mintedAt of an item whose status is MINTED.
C27_MintedIsAbsorbing ==
    [][\A id \in DOMAIN evidence :
          Minted(evidence[id]) =>
              /\ id \in DOMAIN evidence'
              /\ evidence'[id].status = evidence[id].status
              /\ evidence'[id].blockNumber = evidence[id].blockNumber
              /\ evidence'[id].hashValue = evidence[id].hashValue
              /\ evidence'[id].mintedAt = evidence[id].mintedAt]_vars

MostRecent(xs, n) == [i \in 1..(IF Len(xs) < n THEN Len(xs) ELSE n) |->
                          xs[i + (IF Len(xs) < n THEN 0 ELSE Len(xs) - n)]]

\* the buffer never holds more than maxLogs entries, and a log call leaves
\* exactly the maxLogs most recently logged entries, oldest first
RingOfRecentEntries ==
    [][/\ Len(logs') <= maxLogs
       /\ response'.op = "log" =>
              /\ Len(logs') = (IF Len(logs) < maxLogs THEN Len(logs) + 1 ELSE maxLogs)
              /\ logs'[Len(logs')].level = response'.level
              /\ logs'[Len(logs')].timestamp = now
              /\ \A i \in 1..(Len(logs') - 1) :
                     logs'[i] = logs[Len(logs) - (Len(logs') - 1) + i]]_vars

\* getLogs(limit, level) with a limit returns at most limit entries: the most
\* recent ones of the level, most recent first
LimitedMostRecentFirst ==
    (response.op = "getLogs" /\ response.limit # NoNumber) =>
        LET ofLevel == IF response.level = NULL THEN logs
                       ELSE SelectSeq(logs, LAMBDA log : log.level = response.level)
            kept == MostRecent(ofLevel, response.limit)
        IN /\ Len(response.body) <= response.limit
           /\ Len(response.body) = Len(kept)
           /\ \A i \in 1..Len(kept) : response.body[i] = kept[Len(kept) + 1 - i]

\* C30: the buffer is a bounded ring of the maxLogs most recently logged
\* entries in logging order, and getLogs(limit) returns at most limit entries,
\* most recent first.
C30_BoundedRingOfRecentEntries ==
    [][/\ Len(logs') <= maxLogs
       /\ response'.op = "log" =>
              /\ Len(logs') = (IF Len(logs) < maxLogs THEN Len(logs) + 1 ELSE maxLogs)
              /\ logs'[Len(logs')].level = response'.level
              /\ \A i \in 1..(Len(logs') - 1) :
                     logs'[i] = logs[Len(logs) - (Len(logs') - 1) + i]
       /\ LimitedMostRecentFirst']_vars

=============================================================================
